---- MODULE Spec2Model ----
(***************************************************************************)
(* FinStat diagnostic engine: the extraction orchestrator                  *)
(* (extractors/extraer_todas_metricas.py), the metric extractors M001,     *)
(* M003, M004, M005 it runs, their classifiers, and the coherence          *)
(* validator.                                                              *)
(*                                                                         *)
(* Numbers.  Python floats are modelled as exact rationals <<n, d>> in     *)
(* lowest terms with d > 0 (the spec's "pure arithmetic over decimals");   *)
(* Python's None is the empty tuple.  A dict is a function from its keys,  *)
(* an absent key being a key outside its DOMAIN.                           *)
(***************************************************************************)
EXTENDS Integers, Sequences, FiniteSets, TLC

VARIABLES
    fuente_disponible, \* whether the source document at ruta_pdf can be opened
    documento,         \* what each parser yields on the (read-only) document
    pc,                \* position of the running function
    idx,               \* index of the next entry of extractores (the for loop)
    metricas,          \* resultados['metricas']
    metricas_exitosas, \* resultados['validacion']['metricas_exitosas']
    metricas_fallidas, \* resultados['validacion']['metricas_fallidas']
    coherencia,        \* resultados['validacion']['coherencia']
    invocados,         \* history: the extractors called so far, in call order
    ratio_entrada,     \* argument of a direct classifier call
    etiquetas,         \* labels returned by the classifiers for ratio_entrada
    linea,             \* argument of a direct extraer_numeros_de_linea call
    numeros,           \* the list extraer_numeros_de_linea returned for linea
    existe,            \* extraer_metrica_m002: Path(ruta_pdf).exists()
    pdf,               \* extraer_metrica_m002: the pages, each the list of its lines
    datos_m002,        \* extraer_metrica_m002: the dict datos
    numero_pagina,     \* extraer_metrica_m002: the page of the outer for loop
    numero_linea,      \* extraer_metrica_m002: index of linea in lineas
    retorno,           \* what extraer_metrica_m002 returned
    rechazados,        \* history: the pairs found out of range, with their place
    clase,             \* the dataclass of a direct constructor call
    argumentos,        \* the keyword arguments of that call
    construida,        \* the object the constructor built
    reporte,           \* what to_dict() returned for it
    tareas             \* extractors run as tasks: each task's state and result

\* The state of an orchestrator run and of the direct validator and classifier
\* calls
vars_orquestador ==
    <<fuente_disponible, documento, pc, idx, metricas, metricas_exitosas,
      metricas_fallidas, coherencia, invocados, ratio_entrada, etiquetas>>

\* vars_orquestador without the position
vars_orquestador_sin_pc ==
    <<fuente_disponible, documento, idx, metricas, metricas_exitosas,
      metricas_fallidas, coherencia, invocados, ratio_entrada, etiquetas>>

\* The state of a direct call of extraer_numeros_de_linea
vars_numeros == <<linea, numeros>>

\* The state of a call of extraer_metrica_m002
vars_m002 ==
    <<existe, pdf, datos_m002, numero_pagina, numero_linea, retorno, rechazados>>

\* The state of a direct call of a metric constructor and of its to_dict
vars_construir == <<clase, argumentos, construida, reporte>>

\* The state of the extractors run as independent tasks
vars_paralelo == <<tareas>>

vars == <<vars_orquestador, vars_numeros, vars_m002, vars_construir, vars_paralelo>>

-----------------------------------------------------------------------------
(* Values *)

NoneVal == <<>>

AbsInt(n) == IF n < 0 THEN -n ELSE n

RECURSIVE GCD(_, _)
GCD(a, b) == IF b = 0 THEN a ELSE GCD(b, a % b)

\* The rational n/d (d # 0) in lowest terms with a positive denominator.
Frac(n, d) ==
    LET g == GCD(AbsInt(n), AbsInt(d))
        s == IF d < 0 THEN -1 ELSE 1
    IN  <<(s * n) \div g, (s * d) \div g>>

Num(n) == <<n, 1>>

IsNum(v) == v # NoneVal

\* Python truthiness of a value: None and 0 are falsy.
Truthy(v) == IsNum(v) /\ v[1] # 0

\* a / b raises TypeError on None and ZeroDivisionError on a zero divisor.
DivOK(a, b) == IsNum(a) /\ IsNum(b) /\ b[1] # 0
RDiv(a, b) == Frac(a[1] * b[2], a[2] * b[1])
RAdd(a, b) == Frac(a[1] * b[2] + b[1] * a[2], a[2] * b[2])
RSub(a, b) == Frac(a[1] * b[2] - b[1] * a[2], a[2] * b[2])
RAbs(a) == <<AbsInt(a[1]), a[2]>>
RLt(a, b) == a[1] * b[2] < b[1] * a[2]
RLe(a, b) == a[1] * b[2] <= b[1] * a[2]

Has(d, k) == k \in DOMAIN d

-----------------------------------------------------------------------------
(* Classifiers *)

\* Labels are written without accents: CRITICO for "CRÍTICO", LIMITE for
\* "LÍMITE".

\* The M001 bands with inclusive upper bounds
evaluar_nivel_riesgo_inclusiva(ratio) ==
    IF RLe(ratio, Frac(4, 100)) THEN "BAJO"
    ELSE IF RLe(ratio, Frac(7, 100)) THEN "MEDIO"
    ELSE IF RLe(ratio, Frac(10, 100)) THEN "ALTO"
    ELSE "CRITICO"

\* metrica_m001.evaluar_nivel_riesgo
evaluar_nivel_riesgo(ratio) ==
    IF RLt(ratio, Frac(4, 100)) THEN "BAJO"
    ELSE IF RLt(ratio, Frac(7, 100)) THEN "MEDIO"
    ELSE IF RLt(ratio, Frac(10, 100)) THEN "ALTO"
    ELSE "CRITICO"

\* metrica_m002.evaluar_desempeno
evaluar_desempeno(roe) ==
    IF RLt(roe, Frac(5, 100)) THEN "BAJO"
    ELSE IF RLt(roe, Frac(10, 100)) THEN "MEDIO"
    ELSE IF RLt(roe, Frac(15, 100)) THEN "ALTO"
    ELSE "EXCELENTE"

\* metrica_m003.evaluar_calidad_cartera
evaluar_calidad_cartera(npl_ratio) ==
    IF RLt(npl_ratio, Frac(3, 100)) THEN "EXCELENTE"
    ELSE IF RLt(npl_ratio, Frac(5, 100)) THEN "BUENO"
    ELSE IF RLt(npl_ratio, Frac(8, 100)) THEN "ACEPTABLE"
    ELSE IF RLt(npl_ratio, Frac(12, 100)) THEN "ALTO"
    ELSE "CRITICO"

\* The M004 bands with 1.50 itself already CONSERVADOR
evaluar_nivel_cobertura_desde_150(coverage) ==
    IF RLe(Frac(150, 100), coverage) THEN "CONSERVADOR"
    ELSE IF RLe(Num(1), coverage) THEN "ADECUADO"
    ELSE IF RLe(Frac(80, 100), coverage) THEN "LIMITE"
    ELSE "INSUFICIENTE"

\* metrica_m004.evaluar_nivel_cobertura
evaluar_nivel_cobertura(coverage) ==
    IF RLt(Frac(150, 100), coverage) THEN "CONSERVADOR"
    ELSE IF RLe(Frac(100, 100), coverage) THEN "ADECUADO"
    ELSE IF RLe(Frac(80, 100), coverage) THEN "LIMITE"
    ELSE "INSUFICIENTE"

\* metrica_m005.evaluar_nivel_riesgo
evaluar_nivel_riesgo_m005(ratio) ==
    IF RLt(ratio, Frac(3, 100)) THEN "EXCELENTE"
    ELSE IF RLt(ratio, Frac(5, 100)) THEN "BUENO"
    ELSE IF RLt(ratio, Frac(8, 100)) THEN "ACEPTABLE"
    ELSE IF RLt(ratio, Frac(12, 100)) THEN "ALTO"
    ELSE "CRITICO"

-----------------------------------------------------------------------------
(* Parsers (package parsers/): what they yield on the document.            *)
(* A parser result is [st |-> "dict", d |-> the dict], [st |-> "none"]     *)
(* (the parser returned None) or [st |-> "raise"] (it raised).             *)

extraer_tabla_provision(doc) == doc.tabla
extraer_cobertura_vencida(doc) == doc.cobertura
extraer_calificacion_riesgo(doc) == doc.calificacion

\* Cartera vencida = provision / coverage.
calcular_cartera_vencida_desde_cobertura(provision, coverage) ==
    RDiv(provision, coverage)

\* Outcomes of a call: a returned object, a returned None, a raised exception.
Ret(m) == [tipo |-> "metrica", m |-> m]
RetNone == [tipo |-> "none"]
Raise == [tipo |-> "raise"]

-----------------------------------------------------------------------------
(* Metric records (the dataclasses) and their to_dict.  fecha_extraccion   *)
(* (the wall-clock timestamp) and the constant texts are left out.         *)

\* MetricaM001(...) with __post_init__; kw holds the keyword arguments
MetricaM001(kw) ==
    [id |-> "M001", cambio_yoy |-> RSub(kw.ratio_2024, kw.ratio_2023)] @@ kw

\* MetricaM001.to_dict
MetricaM001_to_dict(self) ==
    Ret([id |-> self.id,
         valores |-> ("2024" :> [provision |-> self.provision_2024,
                                 cartera |-> self.cartera_2024,
                                 ratio |-> self.ratio_2024]
                   @@ "2023" :> [provision |-> self.provision_2023,
                                 cartera |-> self.cartera_2023,
                                 ratio |-> self.ratio_2023]),
         analisis |-> [cambio_yoy_pp |-> self.cambio_yoy,
                       nivel_riesgo |-> self.nivel_riesgo],
         metadata |-> [pagina_fuente |-> self.pagina_fuente]])

\* MetricaM003(...) with __post_init__
MetricaM003(kw) ==
    [id |-> "M003",
     cambio_yoy |-> RSub(kw.npl_ratio_2024, kw.npl_ratio_2023),
     cambio_absoluto_vencida |->
         RSub(kw.cartera_vencida_2024, kw.cartera_vencida_2023)] @@ kw

\* MetricaM003.to_dict
MetricaM003_to_dict(self) ==
    Ret([id |-> self.id,
         valores |-> ("2024" :> [cartera_vencida |-> self.cartera_vencida_2024,
                                 cartera_total |-> self.cartera_total_2024,
                                 npl_ratio |-> self.npl_ratio_2024]
                   @@ "2023" :> [cartera_vencida |-> self.cartera_vencida_2023,
                                 cartera_total |-> self.cartera_total_2023,
                                 npl_ratio |-> self.npl_ratio_2023]),
         analisis |-> [cambio_yoy_pp |-> self.cambio_yoy,
                       cambio_vencida_monto |-> self.cambio_absoluto_vencida,
                       calidad_cartera |-> self.calidad_cartera],
         calculo |-> [provision_2024 |-> self.provision_2024,
                      coverage_2024 |-> self.coverage_2024],
         metadata |-> [pagina_fuente |-> self.pagina_fuente]])

\* MetricaM004(...) as the generated __init__ alone leaves it: cambio_yoy is
\* the value passed, 0.0 by default
MetricaM004_sin_post_init(kw) ==
    kw @@ [id |-> "M004", cambio_yoy |-> Num(0)]

\* MetricaM004(...) with __post_init__
MetricaM004(kw) ==
    [id |-> "M004", cambio_yoy |-> RSub(kw.coverage_2024, kw.coverage_2023)] @@ kw

\* MetricaM004.to_dict
MetricaM004_to_dict(self) ==
    Ret([id |-> self.id,
         valores |-> ("2024" :> [coverage_ratio |-> self.coverage_2024]
                   @@ "2023" :> [coverage_ratio |-> self.coverage_2023]),
         analisis |-> [cambio_yoy_pp |-> self.cambio_yoy,
                       nivel_cobertura |-> self.nivel_cobertura],
         metadata |-> [pagina_fuente |-> self.pagina_fuente]])

\* MetricaM005(...) with __post_init__; cartera_a ... cartera_total hold the
\* amounts of both periods, each a function of the period.
MetricaM005(kw) ==
    [id |-> "M005",
     cambio_yoy |-> RSub(kw.ratio_riesgosa_2024, kw.ratio_riesgosa_2023)] @@ kw

\* MetricaM005.to_dict: composicion_2024 divides the five 2024 amounts by the
\* 2024 total, which raises TypeError when one of them is None.
MetricaM005_to_dict(self) ==
    LET t == self.cartera_total["2024"]
        periodo(p, ratio) ==
            [categoria_a |-> self.cartera_a[p], categoria_b |-> self.cartera_b[p],
             categoria_c |-> self.cartera_c[p], categoria_d |-> self.cartera_d[p],
             categoria_e |-> self.cartera_e[p], total |-> self.cartera_total[p],
             ratio_riesgosa_cde |-> ratio]
    IN  IF \/ ~DivOK(self.cartera_a["2024"], t) \/ ~DivOK(self.cartera_b["2024"], t)
           \/ ~DivOK(self.cartera_c["2024"], t) \/ ~DivOK(self.cartera_d["2024"], t)
           \/ ~DivOK(self.cartera_e["2024"], t)
        THEN Raise
        ELSE Ret([id |-> self.id,
                  valores |-> ("2024" :> periodo("2024", self.ratio_riesgosa_2024)
                            @@ "2023" :> periodo("2023", self.ratio_riesgosa_2023)),
                  analisis |-> [cambio_yoy_pp |-> self.cambio_yoy,
                                nivel_riesgo |-> self.nivel_riesgo],
                  composicion_2024 |->
                      [a_pct |-> RDiv(self.cartera_a["2024"], t),
                       b_pct |-> RDiv(self.cartera_b["2024"], t),
                       c_pct |-> RDiv(self.cartera_c["2024"], t),
                       d_pct |-> RDiv(self.cartera_d["2024"], t),
                       e_pct |-> RDiv(self.cartera_e["2024"], t)],
                  metadata |-> [pagina_fuente |-> self.pagina_fuente]])

\* MetricaM002(...) with __post_init__
MetricaM002(kw) ==
    [id |-> "M002", cambio_yoy |-> RSub(kw.roe_2024, kw.roe_2023)] @@ kw

\* MetricaM002.to_dict
MetricaM002_to_dict(self) ==
    Ret([id |-> self.id,
         valores |-> ("2024" :> [utilidad_neta |-> self.utilidad_neta_2024,
                                 patrimonio |-> self.patrimonio_2024,
                                 roe |-> self.roe_2024]
                   @@ "2023" :> [utilidad_neta |-> self.utilidad_neta_2023,
                                 patrimonio |-> self.patrimonio_2023,
                                 roe |-> self.roe_2023]),
         analisis |-> [cambio_yoy_pp |-> self.cambio_yoy,
                       nivel_desempeno |-> self.nivel_desempeno],
         metadata |-> [pagina_fuente |-> self.pagina_fuente]])

\* metrica.to_dict() on the object an extractor returned
to_dict(self) ==
    CASE self.id = "M001" -> MetricaM001_to_dict(self)
      [] self.id = "M003" -> MetricaM003_to_dict(self)
      [] self.id = "M004" -> MetricaM004_to_dict(self)
      [] self.id = "M002" -> MetricaM002_to_dict(self)
      [] self.id = "M005" -> MetricaM005_to_dict(self)

-----------------------------------------------------------------------------
(* Extractors.  Each is the function's control flow in source order: a     *)
(* KeyError on an absent key, a TypeError on arithmetic or number          *)
(* formatting of None and a ZeroDivisionError end it with Raise; the       *)
(* "not datos or not datos[...]" guards end it with RetNone.               *)

\* "not datos": None and the empty dict are falsy
Falsy_datos(r) == r.st = "none" \/ (r.st = "dict" /\ DOMAIN r.d = {})

\* extraer_metrica_m001 labelling the metric by the prior period's ratio
extraer_metrica_m001_etiqueta_2023(doc) ==
    LET r == extraer_tabla_provision(doc) IN
    IF r.st = "raise" THEN Raise
    ELSE IF Falsy_datos(r) THEN RetNone
    ELSE LET datos == r.d IN
    IF ~Has(datos, "provision_2024") THEN Raise
    ELSE IF ~Truthy(datos["provision_2024"]) THEN RetNone
    ELSE IF ~Has(datos, "cartera_2024") THEN Raise
    ELSE IF ~Truthy(datos["cartera_2024"]) THEN RetNone
    ELSE IF ~Has(datos, "provision_2023") \/ ~Has(datos, "cartera_2023") THEN Raise
    ELSE IF ~DivOK(datos["provision_2023"], datos["cartera_2023"]) THEN Raise
    ELSE IF ~Has(datos, "pagina_encontrada") THEN Raise
    ELSE LET ratio_2024 == RDiv(datos["provision_2024"], datos["cartera_2024"])
             ratio_2023 == RDiv(datos["provision_2023"], datos["cartera_2023"])
             nivel_riesgo == evaluar_nivel_riesgo(ratio_2023)
         IN  Ret(MetricaM001(
                 [provision_2024 |-> datos["provision_2024"],
                  provision_2023 |-> datos["provision_2023"],
                  cartera_2024 |-> datos["cartera_2024"],
                  cartera_2023 |-> datos["cartera_2023"],
                  ratio_2024 |-> ratio_2024, ratio_2023 |-> ratio_2023,
                  nivel_riesgo |-> nivel_riesgo,
                  pagina_fuente |-> datos["pagina_encontrada"]]))

\* extraer_metrica_m001
extraer_metrica_m001(doc) ==
    LET r == extraer_tabla_provision(doc) IN
    IF r.st = "raise" THEN Raise
    ELSE IF Falsy_datos(r) THEN RetNone
    ELSE LET datos == r.d IN
    IF ~Has(datos, "provision_2024") THEN Raise
    ELSE IF ~Truthy(datos["provision_2024"]) THEN RetNone
    ELSE IF ~Has(datos, "cartera_2024") THEN Raise
    ELSE IF ~Truthy(datos["cartera_2024"]) THEN RetNone
    ELSE IF ~Has(datos, "provision_2023") \/ ~Has(datos, "cartera_2023") THEN Raise
    ELSE IF ~DivOK(datos["provision_2023"], datos["cartera_2023"]) THEN Raise
    ELSE IF ~Has(datos, "pagina_encontrada") THEN Raise
    ELSE LET ratio_2024 == RDiv(datos["provision_2024"], datos["cartera_2024"])
             ratio_2023 == RDiv(datos["provision_2023"], datos["cartera_2023"])
             nivel_riesgo == evaluar_nivel_riesgo(ratio_2024)
         IN  Ret(MetricaM001(
                 [provision_2024 |-> datos["provision_2024"],
                  provision_2023 |-> datos["provision_2023"],
                  cartera_2024 |-> datos["cartera_2024"],
                  cartera_2023 |-> datos["cartera_2023"],
                  ratio_2024 |-> ratio_2024, ratio_2023 |-> ratio_2023,
                  nivel_riesgo |-> nivel_riesgo,
                  pagina_fuente |-> datos["pagina_encontrada"]]))

\* extraer_metrica_m003
extraer_metrica_m003(doc) ==
    LET rp == extraer_tabla_provision(doc) IN
    IF rp.st = "raise" THEN Raise
    ELSE IF Falsy_datos(rp) THEN RetNone
    ELSE LET datos_provision == rp.d IN
    IF ~Has(datos_provision, "provision_2024") THEN Raise
    ELSE IF ~Truthy(datos_provision["provision_2024"]) THEN RetNone
    ELSE IF \/ ~Has(datos_provision, "provision_2023")
            \/ ~Has(datos_provision, "cartera_2024")
            \/ ~Has(datos_provision, "cartera_2023") THEN Raise
    \* print(f"... {cartera_total_2024:,.0f}")
    ELSE IF ~IsNum(datos_provision["cartera_2024"]) THEN Raise
    ELSE LET provision_2024 == datos_provision["provision_2024"]
             provision_2023 == datos_provision["provision_2023"]
             cartera_total_2024 == datos_provision["cartera_2024"]
             cartera_total_2023 == datos_provision["cartera_2023"]
             rc == extraer_cobertura_vencida(doc)
         IN
    IF rc.st = "raise" THEN Raise
    ELSE IF Falsy_datos(rc) THEN RetNone
    ELSE LET datos_coverage == rc.d IN
    IF ~Has(datos_coverage, "cobertura_2024") THEN Raise
    ELSE IF ~Truthy(datos_coverage["cobertura_2024"]) THEN RetNone
    ELSE IF ~Has(datos_coverage, "cobertura_2023") THEN Raise
    \* print(f"... {coverage_2023:.2%}")
    ELSE IF ~IsNum(datos_coverage["cobertura_2023"]) THEN Raise
    ELSE LET coverage_2024 == datos_coverage["cobertura_2024"]
             coverage_2023 == datos_coverage["cobertura_2023"]
         IN
    IF ~DivOK(provision_2023, coverage_2023) THEN Raise
    ELSE LET cartera_vencida_2024 ==
                 calcular_cartera_vencida_desde_cobertura(provision_2024, coverage_2024)
             cartera_vencida_2023 ==
                 calcular_cartera_vencida_desde_cobertura(provision_2023, coverage_2023)
         IN
    IF ~DivOK(cartera_vencida_2024, cartera_total_2024) THEN Raise
    ELSE IF ~DivOK(cartera_vencida_2023, cartera_total_2023) THEN Raise
    ELSE IF ~Has(datos_coverage, "pagina_encontrada") THEN Raise
    ELSE LET npl_2024 == RDiv(cartera_vencida_2024, cartera_total_2024)
             npl_2023 == RDiv(cartera_vencida_2023, cartera_total_2023)
             calidad == evaluar_calidad_cartera(npl_2024)
         IN  Ret(MetricaM003(
                 [cartera_vencida_2024 |-> cartera_vencida_2024,
                  cartera_vencida_2023 |-> cartera_vencida_2023,
                  cartera_total_2024 |-> cartera_total_2024,
                  cartera_total_2023 |-> cartera_total_2023,
                  npl_ratio_2024 |-> npl_2024, npl_ratio_2023 |-> npl_2023,
                  calidad_cartera |-> calidad,
                  provision_2024 |-> provision_2024,
                  provision_2023 |-> provision_2023,
                  coverage_2024 |-> coverage_2024,
                  coverage_2023 |-> coverage_2023,
                  pagina_fuente |-> datos_coverage["pagina_encontrada"]]))

\* extraer_metrica_m004
extraer_metrica_m004(doc) ==
    LET r == extraer_cobertura_vencida(doc) IN
    IF r.st = "raise" THEN Raise
    ELSE IF Falsy_datos(r) THEN RetNone
    ELSE LET datos == r.d IN
    IF ~Has(datos, "cobertura_2024") THEN Raise
    ELSE IF ~Truthy(datos["cobertura_2024"]) THEN RetNone
    ELSE IF ~Has(datos, "cobertura_2023") THEN Raise
    \* print(f"... {datos['cobertura_2023']:.2%}")
    ELSE IF ~IsNum(datos["cobertura_2023"]) THEN Raise
    ELSE IF ~Has(datos, "pagina_encontrada") THEN Raise
    ELSE LET nivel == evaluar_nivel_cobertura(datos["cobertura_2024"])
         IN  Ret(MetricaM004(
                 [coverage_2024 |-> datos["cobertura_2024"],
                  coverage_2023 |-> datos["cobertura_2023"],
                  nivel_cobertura |-> nivel,
                  pagina_fuente |-> datos["pagina_encontrada"]]))

\* datos[k1] + datos[k2] + datos[k3] evaluates without KeyError or TypeError
SumOK(datos, k1, k2, k3) ==
    /\ Has(datos, k1) /\ Has(datos, k2) /\ Has(datos, k3)
    /\ IsNum(datos[k1]) /\ IsNum(datos[k2]) /\ IsNum(datos[k3])

\* extraer_metrica_m005
extraer_metrica_m005(doc) ==
    LET r == extraer_calificacion_riesgo(doc) IN
    IF r.st = "raise" THEN Raise
    ELSE IF Falsy_datos(r) THEN RetNone
    ELSE LET datos == r.d IN
    \* not datos.get('a_2024')
    IF ~Has(datos, "a_2024") THEN RetNone
    ELSE IF ~Truthy(datos["a_2024"]) THEN RetNone
    ELSE IF ~SumOK(datos, "c_2024", "d_2024", "e_2024") THEN Raise
    ELSE IF ~Has(datos, "total_2024") THEN Raise
    ELSE LET riesgosa_2024 ==
                 RAdd(RAdd(datos["c_2024"], datos["d_2024"]), datos["e_2024"])
         IN
    IF ~DivOK(riesgosa_2024, datos["total_2024"]) THEN Raise
    ELSE IF ~SumOK(datos, "c_2023", "d_2023", "e_2023") THEN Raise
    ELSE IF ~Has(datos, "total_2023") THEN Raise
    ELSE LET riesgosa_2023 ==
                 RAdd(RAdd(datos["c_2023"], datos["d_2023"]), datos["e_2023"])
         IN
    IF ~DivOK(riesgosa_2023, datos["total_2023"]) THEN Raise
    ELSE IF \/ ~Has(datos, "b_2024") \/ ~Has(datos, "a_2023")
            \/ ~Has(datos, "b_2023") THEN Raise
    ELSE LET ratio_2024 == RDiv(riesgosa_2024, datos["total_2024"])
             ratio_2023 == RDiv(riesgosa_2023, datos["total_2023"])
             nivel == evaluar_nivel_riesgo_m005(ratio_2024)
             campo(k24, k23) == ("2024" :> datos[k24] @@ "2023" :> datos[k23])
         IN  Ret(MetricaM005(
                 [cartera_a |-> campo("a_2024", "a_2023"),
                  cartera_b |-> campo("b_2024", "b_2023"),
                  cartera_c |-> campo("c_2024", "c_2023"),
                  cartera_d |-> campo("d_2024", "d_2023"),
                  cartera_e |-> campo("e_2024", "e_2023"),
                  cartera_total |-> campo("total_2024", "total_2023"),
                  ratio_riesgosa_2024 |-> ratio_2024,
                  ratio_riesgosa_2023 |-> ratio_2023,
                  nivel_riesgo |-> nivel,
                  \* datos.get('pagina_encontrada', 0)
                  pagina_fuente |-> IF Has(datos, "pagina_encontrada")
                                    THEN datos["pagina_encontrada"] ELSE Num(0)]))

-----------------------------------------------------------------------------
(* Coherence validator *)

Vacio == [k \in {} |-> TRUE]

\* No call of extraer_metrica_m002 is under way
ReposoM002 ==
    /\ existe = TRUE
    /\ pdf = <<>>
    /\ datos_m002 = <<>>
    /\ numero_pagina = 0
    /\ numero_linea = 0
    /\ retorno = <<>>
    /\ rechazados = {}

\* No extractor runs as a task
ReposoParalelo == tareas = Vacio

\* No direct call of a metric constructor is under way
ReposoConstruir ==
    /\ clase = ""
    /\ argumentos = Vacio
    /\ construida = <<>>
    /\ reporte = <<>>

\* No direct call of extraer_numeros_de_linea is under way
ReposoNumeros == linea = <<>> /\ numeros = <<>>

\* line 134: the metrics rule 1 needs
Regla1_aplica(m) == "M001" \in DOMAIN m /\ "M003" \in DOMAIN m /\ "M004" \in DOMAIN m

\* The tolerance taken inclusively
Regla1_pasa_inclusiva(diferencia) == RLe(diferencia, Frac(1, 100))

\* line 143: diferencia < 0.01
Regla1_pasa(diferencia) == RLt(diferencia, Frac(1, 100))

\* Rule 2 made to wait for M001 as well
Regla2_aplica_con_M001(m) ==
    "M001" \in DOMAIN m /\ "M003" \in DOMAIN m /\ "M005" \in DOMAIN m

\* line 151: the metrics rule 2 needs
Regla2_aplica(m) == "M003" \in DOMAIN m /\ "M005" \in DOMAIN m

\* The comparison taken non-strictly
Regla2_pasa_no_estricta(riesgosa, npl) == RLe(npl, riesgosa)

\* line 156: riesgosa > npl
Regla2_pasa(riesgosa, npl) == RLt(npl, riesgosa)

\* line 165: the metric rule 3 needs
Regla3_aplica(m) == "M001" \in DOMAIN m

\* The upper end of the range left out
Regla3_pasa_sin_extremo(ratio) == RLe(Frac(1, 100), ratio) /\ RLt(ratio, Frac(20, 100))

\* line 169: 0.01 <= ratio <= 0.20
Regla3_pasa(ratio) == RLe(Frac(1, 100), ratio) /\ RLe(ratio, Frac(20, 100))

\* A rule's step: [raised, coh], coh being the coherencia dict after it.
Sigue(coh) == [raised |-> FALSE, coh |-> coh]
Lanza(coh) == [raised |-> TRUE, coh |-> coh]
Pone(coh, k, v) == Sigue((k :> v) @@ coh)

\* Regla 1: Coverage = Provision / Cartera Vencida
Regla1(m, coh) ==
    IF ~Regla1_aplica(m) THEN Sigue(coh)
    ELSE LET provision == m["M001"].valores["2024"].provision
             cartera_vencida == m["M003"].valores["2024"].cartera_vencida
             coverage_reportado == m["M004"].valores["2024"].coverage_ratio
         IN  IF ~DivOK(provision, cartera_vencida) \/ ~IsNum(coverage_reportado)
             THEN Lanza(coh)
             ELSE LET coverage_calculado == RDiv(provision, cartera_vencida)
                      diferencia == RAbs(RSub(coverage_calculado, coverage_reportado))
                  IN  Pone(coh, "coverage_coherente", Regla1_pasa(diferencia))

\* Regla 2: Cartera Riesgosa > NPL
Regla2(m, coh) ==
    IF ~Regla2_aplica(m) THEN Sigue(coh)
    ELSE LET npl == m["M003"].valores["2024"].npl_ratio
             riesgosa == m["M005"].valores["2024"].ratio_riesgosa_cde
         IN  IF ~IsNum(npl) \/ ~IsNum(riesgosa) THEN Lanza(coh)
             ELSE Pone(coh, "riesgosa_mayor_que_npl", Regla2_pasa(riesgosa, npl))

\* Regla 3: Provision/Cartera en rango razonable
Regla3(m, coh) ==
    IF ~Regla3_aplica(m) THEN Sigue(coh)
    ELSE LET ratio == m["M001"].valores["2024"].ratio
         IN  IF ~IsNum(ratio) THEN Lanza(coh)
             ELSE Pone(coh, "provision_rango_valido", Regla3_pasa(ratio))

\* The rules chained so that a failed rule ends the validation
validar_coherencia_hasta_fallo(m, coh) ==
    LET fallo(s, k) == s.raised \/ (k \in DOMAIN s.coh /\ ~s.coh[k])
        s1 == Regla1(m, coh)
    IN  IF fallo(s1, "coverage_coherente") THEN s1
        ELSE LET s2 == Regla2(m, s1.coh) IN
             IF fallo(s2, "riesgosa_mayor_que_npl") THEN s2 ELSE Regla3(m, s2.coh)

\* validar_coherencia(resultados): the three rules in order; an exception
\* leaves the keys already written and propagates.
validar_coherencia(m, coh) ==
    LET s1 == Regla1(m, coh) IN
    IF s1.raised THEN s1
    ELSE LET s2 == Regla2(m, s1.coh) IN
         IF s2.raised THEN s2 ELSE Regla3(m, s2.coh)

-----------------------------------------------------------------------------
(* Documents: the parsers' results on the document at ruta_pdf.            *)

Parsers == {"tabla", "cobertura", "calificacion"}

\* Amounts and ratios of a well-formed document; v picks provision_2024,
\* cobertura_2024 and e_2024 among two values each.
BaseTabla(v) ==
    [provision_2024 |-> Num(IF v.p = 1 THEN 50 ELSE 300), provision_2023 |-> Num(40),
     cartera_2024 |-> Num(1000), cartera_2023 |-> Num(800),
     pagina_encontrada |-> Num(12)]

BaseCobertura(v) ==
    [cobertura_2024 |-> IF v.c = 1 THEN Frac(5, 4) ELSE Frac(1, 1),
     cobertura_2023 |-> Frac(6, 5), pagina_encontrada |-> Num(95)]

BaseCalificacion(v) ==
    [a_2024 |-> Num(800), b_2024 |-> Num(150), c_2024 |-> Num(20),
     d_2024 |-> Num(20), e_2024 |-> Num(IF v.e = 1 THEN 10 ELSE 30),
     total_2024 |-> Num(1000),
     a_2023 |-> Num(700), b_2023 |-> Num(100), c_2023 |-> Num(20),
     d_2023 |-> Num(10), e_2023 |-> Num(10), total_2023 |-> Num(900),
     pagina_encontrada |-> Num(97)]

Variantes == [p : {1, 2}, c : {1, 2}, e : {1, 2}]
VarianteBase == [p |-> 1, c |-> 1, e |-> 1]

Base(p, v) ==
    CASE p = "tabla" -> BaseTabla(v)
      [] p = "cobertura" -> BaseCobertura(v)
      [] p = "calificacion" -> BaseCalificacion(v)

\* The fields of the three dicts
Campos == UNION {{<<p, k>> : k \in DOMAIN Base(p, VarianteBase)} : p \in Parsers}

\* What a parser can leave in a field it did not find: None, 0, or no key.
Anomalias == {"none", "cero", "ausente"}

\* At most MaxAnomalias fields of a document are anomalous.
MaxAnomalias == 1

RECURSIVE Subconjuntos(_)
Subconjuntos(n) ==
    IF n = 0 THEN {{}}
    ELSE LET menos == Subconjuntos(n - 1)
         IN  menos \cup {s \cup {c} : s \in menos, c \in Campos}

Defectos == UNION {[S -> Anomalias] : S \in Subconjuntos(MaxAnomalias)}

\* The dict of parser p with the anomalies an applied to base
Aplicar(p, base, an) ==
    [k \in {k \in DOMAIN base :
              ~(<<p, k>> \in DOMAIN an /\ an[<<p, k>>] = "ausente")} |->
        IF <<p, k>> \in DOMAIN an
        THEN (IF an[<<p, k>>] = "none" THEN NoneVal ELSE Num(0))
        ELSE base[k]]

Resultado(p, st, v, an) ==
    IF st[p] = "dict" THEN [st |-> "dict", d |-> Aplicar(p, Base(p, v), an)]
    ELSE [st |-> st[p]]

Documento(st, v, an) ==
    [tabla |-> Resultado("tabla", st, v, an),
     cobertura |-> Resultado("cobertura", st, v, an),
     calificacion |-> Resultado("calificacion", st, v, an)]

\* A document that opens: each parser returns a dict, returns None or raises;
\* the dicts are well formed (any variant) or the base variant with anomalies.
\* A document that cannot be opened: no parser gets a dict out of it.
Documentos(disponible) ==
    IF disponible
    THEN {Documento(st, v, Vacio) :
              st \in [Parsers -> {"dict", "none", "raise"}], v \in Variantes}
         \cup {Documento(st, VarianteBase, an) :
              st \in [Parsers -> {"dict", "none", "raise"}], an \in Defectos}
    ELSE {Documento(st, VarianteBase, Vacio) : st \in [Parsers -> {"none", "raise"}]}

-----------------------------------------------------------------------------
(* Orchestrator: extraer_todas_metricas *)

\* The catalogue with the chained metric first
extractores_reordenado == <<"M003", "M001", "M004", "M005">>

\* lines 69-74: the catalogue, in order
extractores == <<"M001", "M003", "M004", "M005">>

\* The catalogue with M005 made to give up when the coverage extractor fails
funcion_extractora_encadenada(metrica_id, doc) ==
    CASE metrica_id = "M001" -> extraer_metrica_m001(doc)
      [] metrica_id = "M003" -> extraer_metrica_m003(doc)
      [] metrica_id = "M004" -> extraer_metrica_m004(doc)
      [] metrica_id = "M005" ->
           IF extraer_metrica_m004(doc).tipo = "metrica"
           THEN extraer_metrica_m005(doc) ELSE RetNone

\* funcion_extractora(ruta_pdf) for the catalogue entry metrica_id
funcion_extractora(metrica_id, doc) ==
    CASE metrica_id = "M001" -> extraer_metrica_m001(doc)
      [] metrica_id = "M003" -> extraer_metrica_m003(doc)
      [] metrica_id = "M004" -> extraer_metrica_m004(doc)
      [] metrica_id = "M005" -> extraer_metrica_m005(doc)

\* lines 83-86, the body of the try: the extractor's call and, on a truthy
\* result, its to_dict().
Intento(metrica_id, doc) ==
    LET metrica == funcion_extractora(metrica_id, doc)
    IN  IF metrica.tipo = "metrica" THEN to_dict(metrica.m) ELSE metrica

Init ==
    /\ fuente_disponible \in BOOLEAN
    /\ documento \in Documentos(fuente_disponible)
    /\ pc = "for"
    /\ idx = 1
    /\ metricas = Vacio
    /\ metricas_exitosas = <<>>
    /\ metricas_fallidas = <<>>
    /\ coherencia = Vacio
    /\ invocados = <<>>
    /\ ratio_entrada = NoneVal
    /\ etiquetas = Vacio
    /\ ReposoNumeros
    /\ ReposoM002
    /\ ReposoConstruir
    /\ ReposoParalelo

\* The loop body without its try/except: an extractor's exception leaves
\* extraer_todas_metricas
EjecutarExtractor_sin_except ==
    /\ pc = "for"
    /\ idx <= Len(extractores)
    /\ LET metrica_id == extractores[idx]
           r == Intento(metrica_id, documento)
       IN  /\ invocados' = Append(invocados, metrica_id)
           /\ pc' = IF r.tipo = "raise" THEN "excepcion" ELSE pc
           /\ metricas' = IF r.tipo = "metrica"
                          THEN (metrica_id :> r.m) @@ metricas ELSE metricas
           /\ metricas_exitosas' = IF r.tipo = "metrica"
                                   THEN Append(metricas_exitosas, metrica_id)
                                   ELSE metricas_exitosas
           /\ metricas_fallidas' = IF r.tipo = "none"
                                   THEN Append(metricas_fallidas, metrica_id)
                                   ELSE metricas_fallidas
    /\ idx' = idx + 1
    /\ UNCHANGED <<fuente_disponible, documento, coherencia, ratio_entrada,
                   etiquetas,
                   vars_numeros, vars_m002,
                   vars_construir, vars_paralelo>>

\* The loop body filing a succeeded id at the head of metricas_exitosas
EjecutarExtractor_al_frente ==
    /\ pc = "for"
    /\ idx <= Len(extractores)
    /\ LET metrica_id == extractores[idx]
           r == Intento(metrica_id, documento)
       IN  /\ invocados' = Append(invocados, metrica_id)
           /\ IF r.tipo = "metrica"
              THEN /\ metricas' = (metrica_id :> r.m) @@ metricas
                   /\ metricas_exitosas' = <<metrica_id>> \o metricas_exitosas
                   /\ UNCHANGED metricas_fallidas
              ELSE /\ metricas_fallidas' = Append(metricas_fallidas, metrica_id)
                   /\ UNCHANGED <<metricas, metricas_exitosas>>
    /\ idx' = idx + 1
    /\ UNCHANGED <<fuente_disponible, documento, pc, coherencia, ratio_entrada,
                   etiquetas,
                   vars_numeros, vars_m002,
                   vars_construir, vars_paralelo>>

\* One iteration of the for loop (lines 77-95)
EjecutarExtractor ==
    /\ pc = "for"
    /\ idx <= Len(extractores)
    /\ LET metrica_id == extractores[idx]
           r == Intento(metrica_id, documento)
       IN  /\ invocados' = Append(invocados, metrica_id)
           /\ IF r.tipo = "metrica"
              THEN /\ metricas' = (metrica_id :> r.m) @@ metricas
                   /\ metricas_exitosas' = Append(metricas_exitosas, metrica_id)
                   /\ UNCHANGED metricas_fallidas
              ELSE \* "else" of "if metrica", or "except Exception"
                   /\ metricas_fallidas' = Append(metricas_fallidas, metrica_id)
                   /\ UNCHANGED <<metricas, metricas_exitosas>>
    /\ idx' = idx + 1
    /\ UNCHANGED <<fuente_disponible, documento, pc, coherencia, ratio_entrada,
                   etiquetas,
                   vars_numeros, vars_m002,
                   vars_construir, vars_paralelo>>

\* The validation placed inside the loop: it runs as soon as one extractor
\* has completed
ValidarYRetornar_anticipada ==
    /\ pc = "for"
    /\ idx > 1
    /\ LET s == validar_coherencia(metricas, coherencia)
       IN  /\ coherencia' = s.coh
           /\ pc' = IF s.raised THEN "excepcion" ELSE "return"
    /\ UNCHANGED <<fuente_disponible, documento, idx, metricas, metricas_exitosas,
                   metricas_fallidas, invocados, ratio_entrada, etiquetas,
                   vars_numeros, vars_m002,
                   vars_construir, vars_paralelo>>

\* After the loop: validar_coherencia(resultados), the summary, the return
\* (lines 102-117).  An exception of validar_coherencia leaves the function.
ValidarYRetornar ==
    /\ pc = "for"
    /\ idx > Len(extractores)
    /\ LET s == validar_coherencia(metricas, coherencia)
       IN  /\ coherencia' = s.coh
           /\ pc' = IF s.raised THEN "excepcion" ELSE "return"
    /\ UNCHANGED <<fuente_disponible, documento, idx, metricas, metricas_exitosas,
                   metricas_fallidas, invocados, ratio_entrada, etiquetas,
                   vars_numeros, vars_m002,
                   vars_construir, vars_paralelo>>

Next == EjecutarExtractor \/ ValidarYRetornar

Spec == Init /\ [][Next]_vars

-----------------------------------------------------------------------------
(* Direct calls of validar_coherencia(resultados), on any set of metrics   *)
(* the extractors can build.  Each metric is what its extractor builds on  *)
(* a well-formed document of its own, so that the metrics of one           *)
(* resultados need not agree with each other.                              *)

\* Grids, in units of 1/200: the M001 ratio runs over 1/200 .. MaxRatio200/200
\* and the reported coverage over 248/200 .. MaxCobertura200/200.
MaxRatio200 == 42
MaxCobertura200 == 256

Ids == {"M001", "M003", "M004", "M005"}

DocDe(tabla, cobertura, calificacion) ==
    [tabla |-> [st |-> "dict", d |-> tabla],
     cobertura |-> [st |-> "dict", d |-> cobertura],
     calificacion |-> [st |-> "dict", d |-> calificacion]]

TablasM001 ==
    {[BaseTabla(VarianteBase) EXCEPT !.provision_2024 = Num(n)] :
        n \in {5 * k : k \in 1..MaxRatio200} \cup {1000, 1260}}

TablasM003 ==
    {[BaseTabla(VarianteBase) EXCEPT !.provision_2024 = Num(1000),
                                     !.cartera_2024 = Num(n)] :
        n \in {12500, 16000, 20000}}

CoberturasM003 ==
    {[BaseCobertura(VarianteBase) EXCEPT !.cobertura_2024 = c] :
        c \in {Frac(5, 4), Frac(1, 1)}}

CoberturasM004 ==
    {[BaseCobertura(VarianteBase) EXCEPT !.cobertura_2024 = Frac(k, 200)] :
        k \in 248..MaxCobertura200}

CalificacionesM005 ==
    {[BaseCalificacion(VarianteBase) EXCEPT !.e_2024 = Num(n)] : n \in {0, 10, 30}}

DocsDe(metrica_id) ==
    LET t == BaseTabla(VarianteBase)
        c == BaseCobertura(VarianteBase)
        k == BaseCalificacion(VarianteBase)
    IN  CASE metrica_id = "M001" -> {DocDe(x, c, k) : x \in TablasM001}
          [] metrica_id = "M003" ->
                 {DocDe(x, y, k) : x \in TablasM003, y \in CoberturasM003}
          [] metrica_id = "M004" -> {DocDe(t, y, k) : y \in CoberturasM004}
          [] metrica_id = "M005" -> {DocDe(t, c, z) : z \in CalificacionesM005}

\* For one metric: absent, or the dict its extractor builds on a document
Opciones(metrica_id) ==
    {[hay |-> FALSE]}
    \cup {[hay |-> TRUE, m |-> Intento(metrica_id, doc).m] :
             doc \in {d \in DocsDe(metrica_id) :
                         Intento(metrica_id, d).tipo = "metrica"}}

Armar(o) == [metrica_id \in {x \in Ids : o[x].hay} |-> o[metrica_id].m]

EntradasValidar ==
    {Armar([M001 |-> a, M003 |-> b, M004 |-> c, M005 |-> d]) :
        a \in Opciones("M001"), b \in Opciones("M003"),
        c \in Opciones("M004"), d \in Opciones("M005")}

InitValidar ==
    /\ fuente_disponible = TRUE
    /\ documento = Documento([q \in Parsers |-> "none"], VarianteBase, Vacio)
    /\ pc = "validar"
    /\ idx = 1
    /\ metricas \in EntradasValidar
    /\ metricas_exitosas = <<>>
    /\ metricas_fallidas = <<>>
    /\ coherencia = Vacio
    /\ invocados = <<>>
    /\ ratio_entrada = NoneVal
    /\ etiquetas = Vacio
    /\ ReposoNumeros
    /\ ReposoM002
    /\ ReposoConstruir
    /\ ReposoParalelo

\* validar_coherencia(resultados) called on its own
ValidarDirecto ==
    /\ pc = "validar"
    /\ LET s == validar_coherencia(metricas, coherencia)
       IN  /\ coherencia' = s.coh
           /\ pc' = IF s.raised THEN "excepcion" ELSE "return"
    /\ UNCHANGED <<fuente_disponible, documento, idx, metricas, metricas_exitosas,
                   metricas_fallidas, invocados, ratio_entrada, etiquetas,
                   vars_numeros, vars_m002,
                   vars_construir, vars_paralelo>>

NextValidar == ValidarDirecto

SpecValidar == InitValidar /\ [][NextValidar]_vars

-----------------------------------------------------------------------------
(* Direct calls of the five classifiers on one ratio *)

\* The ratios run over -MaxClasificar200/200 .. MaxClasificar200/200 in steps
\* of 1/200, with two extreme values.
MaxClasificar200 == 310

RatiosClasificar ==
    {Frac(k, 200) : k \in (0 - MaxClasificar200)..MaxClasificar200}
    \cup {Num(1000000), Num(-1000000)}

InitClasificar ==
    /\ fuente_disponible = TRUE
    /\ documento = Documento([q \in Parsers |-> "none"], VarianteBase, Vacio)
    /\ pc = "clasificar"
    /\ idx = 1
    /\ metricas = Vacio
    /\ metricas_exitosas = <<>>
    /\ metricas_fallidas = <<>>
    /\ coherencia = Vacio
    /\ invocados = <<>>
    /\ ratio_entrada \in RatiosClasificar
    /\ etiquetas = Vacio
    /\ ReposoNumeros
    /\ ReposoM002
    /\ ReposoConstruir
    /\ ReposoParalelo

Clasificar ==
    /\ pc = "clasificar"
    /\ etiquetas' = [M001 |-> evaluar_nivel_riesgo(ratio_entrada),
                     M002 |-> evaluar_desempeno(ratio_entrada),
                     M003 |-> evaluar_calidad_cartera(ratio_entrada),
                     M004 |-> evaluar_nivel_cobertura(ratio_entrada),
                     M005 |-> evaluar_nivel_riesgo_m005(ratio_entrada)]
    /\ pc' = "return"
    /\ UNCHANGED <<fuente_disponible, documento, idx, metricas, metricas_exitosas,
                   metricas_fallidas, coherencia, invocados, ratio_entrada,
                   vars_numeros, vars_m002,
                   vars_construir, vars_paralelo>>

NextClasificar == Clasificar

SpecClasificar == InitClasificar /\ [][NextClasificar]_vars

-----------------------------------------------------------------------------
(* metrica_m002: the numeric token extractor.  A line of text is the       *)
(* sequence of its characters, each a string of length one.                *)

Digitos == <<"0", "1", "2", "3", "4", "5", "6", "7", "8", "9">>

\* \d
EsDigito(c) == \E i \in 1..10 : Digitos[i] = c

\* [\d,]
EnClase(c) == EsDigito(c) \/ c = ","

ValorDigito(c) == (CHOOSE i \in 1..10 : Digitos[i] = c) - 1

\* re.findall(r'\(?([\d,]+)\)?', linea): the scan is at character i and actual
\* is the group matched so far.  The optional parentheses are outside the
\* group and outside [\d,], so the groups are the maximal runs of [\d,].
RECURSIVE re_findall(_, _, _)
re_findall(texto, i, actual) ==
    LET cerrado == IF actual = <<>> THEN <<>> ELSE <<actual>>
    IN  IF i > Len(texto) THEN cerrado
        ELSE IF EnClase(texto[i]) THEN re_findall(texto, i + 1, Append(actual, texto[i]))
        ELSE cerrado \o re_findall(texto, i + 1, <<>>)

\* match.replace(',', '')
replace_comas(match) == SelectSeq(match, LAMBDA c : c # ",")

\* The value of a string of digits
RECURSIVE ValorDecimal(_)
ValorDecimal(numero_str) ==
    IF numero_str = <<>> THEN 0
    ELSE ValorDecimal(SubSeq(numero_str, 1, Len(numero_str) - 1)) * 10
         + ValorDigito(numero_str[Len(numero_str)])

\* float(numero_str): ValueError on the empty string
float(numero_str) ==
    IF numero_str = <<>> THEN Raise ELSE Ret(Num(ValorDecimal(numero_str)))

\* The loop of extraer_numeros_de_linea that ends at the first token that does
\* not parse
RECURSIVE bucle_numeros_aborta(_, _)
bucle_numeros_aborta(matches, lista) ==
    IF matches = <<>> THEN lista
    ELSE LET numero == float(replace_comas(Head(matches)))
         IN  IF numero = Raise THEN lista
             ELSE IF RLt(Num(1000), numero.m)
                  THEN bucle_numeros_aborta(Tail(matches), Append(lista, numero.m))
             ELSE bucle_numeros_aborta(Tail(matches), lista)

\* lines 240-247: the loop over the matches; lista is numeros so far
RECURSIVE bucle_numeros(_, _)
bucle_numeros(matches, lista) ==
    IF matches = <<>> THEN lista
    ELSE LET numero == float(replace_comas(Head(matches)))
         IN  IF numero = Raise THEN bucle_numeros(Tail(matches), lista)
             ELSE IF RLt(Num(1000), numero.m)
                  THEN bucle_numeros(Tail(matches), Append(lista, numero.m))
             ELSE bucle_numeros(Tail(matches), lista)

\* extraer_numeros_de_linea
extraer_numeros_de_linea(texto) == bucle_numeros(re_findall(texto, 1, <<>>), <<>>)

-----------------------------------------------------------------------------
(* Direct calls of extraer_numeros_de_linea (SpecNumeros) *)

\* The longest line made of the characters of Alfabeto
MaxLinea == 5

Alfabeto == {"0", "1", "9", ",", "(", ")", " "}

LineaUtilidad ==
    <<"U", "t", "i", "l", "i", "d", "a", "d", " ", "n", "e", "t", "a", " ",
      "(", "1", ",", "2", "3", "4", ",", "5", "6", "7", ")", " ", "9", "8",
      "7", ",", "6", "5", "4">>

LineaPagina ==
    <<"p", "a", "g", "e", " ", "3", " ", "o", "f", " ", "4", "5">>

LineaSeparadores ==
    <<",", " ", "2", ",", "0", "0", "0", " ", ",", ",", " ", "(", "3", "0",
      "0", "0", ")">>

\* The lines extraer_numeros_de_linea is called on
LineasNumeros ==
    UNION {[1..n -> Alfabeto] : n \in 0..MaxLinea}
    \cup {LineaUtilidad, LineaPagina, LineaSeparadores}

\* No orchestrator run is under way
ReposoOrquestador ==
    /\ fuente_disponible = TRUE
    /\ documento = Documento([q \in Parsers |-> "none"], VarianteBase, Vacio)
    /\ idx = 1
    /\ metricas = Vacio
    /\ metricas_exitosas = <<>>
    /\ metricas_fallidas = <<>>
    /\ coherencia = Vacio
    /\ invocados = <<>>
    /\ ratio_entrada = NoneVal
    /\ etiquetas = Vacio

InitNumeros ==
    /\ ReposoOrquestador
    /\ pc = "numeros"
    /\ linea \in LineasNumeros
    /\ numeros = <<>>
    /\ ReposoM002
    /\ ReposoConstruir
    /\ ReposoParalelo

\* numeros = extraer_numeros_de_linea(linea)
ExtraerNumeros ==
    /\ pc = "numeros"
    /\ numeros' = extraer_numeros_de_linea(linea)
    /\ pc' = "return"
    /\ UNCHANGED <<fuente_disponible, documento, idx, metricas, metricas_exitosas,
                   metricas_fallidas, coherencia, invocados, ratio_entrada,
                   etiquetas, linea, vars_m002, vars_construir, vars_paralelo>>

NextNumeros == ExtraerNumeros

SpecNumeros == InitNumeros /\ [][NextNumeros]_vars

-----------------------------------------------------------------------------
(* metrica_m002: the scan of the document *)

Mayusculas ==
    <<"A", "B", "C", "D", "E", "F", "G", "H", "I", "J", "K", "L", "M", "N",
      "O", "P", "Q", "R", "S", "T", "U", "V", "W", "X", "Y", "Z">>

Minusculas ==
    <<"a", "b", "c", "d", "e", "f", "g", "h", "i", "j", "k", "l", "m", "n",
      "o", "p", "q", "r", "s", "t", "u", "v", "w", "x", "y", "z">>

\* str.lower() (ASCII letters)
lower(texto) ==
    [i \in 1..Len(texto) |->
        IF \E k \in 1..26 : Mayusculas[k] = texto[i]
        THEN Minusculas[CHOOSE k \in 1..26 : Mayusculas[k] = texto[i]]
        ELSE texto[i]]

\* sub in texto
Contiene(sub, texto) ==
    \E i \in 1..(Len(texto) - Len(sub) + 1) : SubSeq(texto, i, i + Len(sub) - 1) = sub

\* texto[:n]
Prefijo(texto, n) == SubSeq(texto, 1, IF n < Len(texto) THEN n ELSE Len(texto))

utilidad_neta ==
    <<"u", "t", "i", "l", "i", "d", "a", "d", " ", "n", "e", "t", "a">>

net_income ==
    <<"n", "e", "t", " ", "i", "n", "c", "o", "m", "e">>

total ==
    <<"t", "o", "t", "a", "l">>

total_patrimonio ==
    <<"t", "o", "t", "a", "l", " ", "p", "a", "t", "r", "i", "m", "o", "n",
      "i", "o">>

total_equity ==
    <<"t", "o", "t", "a", "l", " ", "e", "q", "u", "i", "t", "y">>

\* lines 140-146: datos before the scan
DatosIniciales ==
    [utilidad_neta_2024 |-> NoneVal, utilidad_neta_2023 |-> NoneVal,
     patrimonio_2024 |-> NoneVal, patrimonio_2023 |-> NoneVal,
     pagina_encontrada |-> NoneVal]

\* lines 161-176 with the guard `not datos['utilidad_neta_2024']` left out
buscar_utilidad_sobrescribe(d, texto, pagina) ==
    LET linea_lower == lower(texto)
        nums == extraer_numeros_de_linea(texto)
    IN  IF /\ Contiene(utilidad_neta, linea_lower) \/ Contiene(net_income, linea_lower)
           /\ ~Contiene(total, Prefijo(linea_lower, 20))
           /\ Len(nums) >= 2
        THEN [d EXCEPT !.utilidad_neta_2024 = RAbs(nums[Len(nums) - 1]),
                       !.utilidad_neta_2023 = RAbs(nums[Len(nums)]),
                       !.pagina_encontrada = Num(pagina)]
        ELSE d

\* lines 161-176: "Buscar Utilidad Neta" on one line; the result is datos
buscar_utilidad(d, texto, pagina) ==
    LET linea_lower == lower(texto)
        nums == extraer_numeros_de_linea(texto)
    IN  IF /\ Contiene(utilidad_neta, linea_lower) \/ Contiene(net_income, linea_lower)
           /\ ~Contiene(total, Prefijo(linea_lower, 20))
           /\ Len(nums) >= 2
           /\ ~Truthy(d.utilidad_neta_2024)
        THEN [d EXCEPT !.utilidad_neta_2024 = RAbs(nums[Len(nums) - 1]),
                       !.utilidad_neta_2023 = RAbs(nums[Len(nums)]),
                       !.pagina_encontrada = Num(pagina)]
        ELSE d

\* lines 179-189: "Buscar Patrimonio" on one line; the result is datos
buscar_patrimonio(d, texto) ==
    LET linea_lower == lower(texto)
        nums == extraer_numeros_de_linea(texto)
    IN  IF /\ Contiene(total_patrimonio, linea_lower) \/ Contiene(total_equity, linea_lower)
           /\ Len(nums) >= 2
           /\ ~Truthy(d.patrimonio_2024)
        THEN [d EXCEPT !.patrimonio_2024 = RAbs(nums[Len(nums) - 1]),
                       !.patrimonio_2023 = RAbs(nums[Len(nums)])]
        ELSE d

\* line 198: -0.10 < roe < 0.30
roe_razonable(roe) == RLt(Frac(-10, 100), roe) /\ RLt(roe, Frac(30, 100))

\* lines 203-221: the metric built from a validated pair
construir_m002(d) ==
    LET patrimonio_prom_2024 == RDiv(RAdd(d.patrimonio_2024, d.patrimonio_2023), Num(2))
        patrimonio_prom_2023 == d.patrimonio_2023
        roe_2024 == RDiv(d.utilidad_neta_2024, patrimonio_prom_2024)
        roe_2023 == RDiv(d.utilidad_neta_2023, patrimonio_prom_2023)
    IN  MetricaM002([utilidad_neta_2024 |-> d.utilidad_neta_2024,
                     utilidad_neta_2023 |-> d.utilidad_neta_2023,
                     patrimonio_2024 |-> d.patrimonio_2024,
                     patrimonio_2023 |-> d.patrimonio_2023,
                     roe_2024 |-> roe_2024, roe_2023 |-> roe_2023,
                     nivel_desempeno |-> evaluar_desempeno(roe_2024),
                     pagina_fuente |-> d.pagina_encontrada])

\* The else branch of line 198 made to give up: return None
al_rechazar_retorna(d) == [tipo |-> "return", retorno |-> RetNone]

\* lines 224-227: the pair is out of range; both 2024 values are cleared and
\* the scan goes on
al_rechazar(d) ==
    [tipo |-> "rechazo",
     datos |-> [d EXCEPT !.utilidad_neta_2024 = NoneVal, !.patrimonio_2024 = NoneVal]]

\* lines 192-227: "Si tenemos ambos, validar y salir"
validar_y_salir(d) ==
    IF Truthy(d.utilidad_neta_2024) /\ Truthy(d.patrimonio_2024)
    THEN IF roe_razonable(RDiv(d.utilidad_neta_2024, d.patrimonio_2024))
         THEN [tipo |-> "return", retorno |-> Ret(construir_m002(d))]
         ELSE al_rechazar(d)
    ELSE [tipo |-> "sigue", datos |-> d]

-----------------------------------------------------------------------------
(* Calls of extraer_metrica_m002 (SpecM002) *)

\* "Utilidad neta 2,000 1,500"
LineaUtilidad2000 ==
    <<"U", "t", "i", "l", "i", "d", "a", "d", " ", "n", "e", "t", "a", " ",
      "2", ",", "0", "0", "0", " ", "1", ",", "5", "0", "0">>

\* "Net income (5,000) 3000 2500"
LineaUtilidad3000 ==
    <<"N", "e", "t", " ", "i", "n", "c", "o", "m", "e", " ", "(", "5", ",",
      "0", "0", "0", ")", " ", "3", "0", "0", "0", " ", "2", "5", "0", "0">>

\* "Utilidad neta 5000 4000"
LineaUtilidad5000 ==
    <<"U", "t", "i", "l", "i", "d", "a", "d", " ", "n", "e", "t", "a", " ",
      "5", "0", "0", "0", " ", "4", "0", "0", "0">>

\* "Total patrimonio 10,000 9,000"
LineaPatrimonio ==
    <<"T", "o", "t", "a", "l", " ", "p", "a", "t", "r", "i", "m", "o", "n",
      "i", "o", " ", "1", "0", ",", "0", "0", "0", " ", "9", ",", "0", "0",
      "0">>

\* "Utilidad neta 2000 900"
LineaUnNumero ==
    <<"U", "t", "i", "l", "i", "d", "a", "d", " ", "n", "e", "t", "a", " ",
      "2", "0", "0", "0", " ", "9", "0", "0">>

\* "Total utilidad neta 2000 1500"
LineaTotalUtilidad ==
    <<"T", "o", "t", "a", "l", " ", "u", "t", "i", "l", "i", "d", "a", "d",
      " ", "n", "e", "t", "a", " ", "2", "0", "0", "0", " ", "1", "5", "0",
      "0">>

\* The lines a page can hold
LineasM002 ==
    {LineaUtilidad2000, LineaUtilidad3000, LineaUtilidad5000, LineaPatrimonio,
     LineaUnNumero, LineaTotalUtilidad}

\* The most lines and page breaks a document holds
MaxDoc == 4

\* The mark that stands between two pages
Salto == <<"salto">>

\* A document written as its lines in order, with the page breaks
Corridos == UNION {[1..n -> LineasM002 \cup {Salto}] : n \in 0..MaxDoc}

\* pdf.pages of a document: the lines up to each page break
RECURSIVE Paginas(_, _)
Paginas(corrido, pagina) ==
    IF corrido = <<>> THEN <<pagina>>
    ELSE IF Head(corrido) = Salto THEN <<pagina>> \o Paginas(Tail(corrido), <<>>)
    ELSE Paginas(Tail(corrido), Append(pagina, Head(corrido)))

InitM002 ==
    /\ ReposoOrquestador
    /\ ReposoNumeros
    /\ ReposoConstruir
    /\ ReposoParalelo
    /\ pc = "m002"
    /\ existe \in BOOLEAN
    /\ pdf \in IF existe THEN {Paginas(c, <<>>) : c \in Corridos} ELSE {<<>>}
    /\ datos_m002 = <<>>
    /\ numero_pagina = 0
    /\ numero_linea = 0
    /\ retorno = <<>>
    /\ rechazados = {}

\* lines 134-146: the existence check, pdfplumber.open and the empty datos
AbrirPdf ==
    /\ pc = "m002"
    /\ IF ~existe
       THEN /\ retorno' = RetNone
            /\ pc' = "return"
            /\ UNCHANGED <<datos_m002, numero_pagina>>
       ELSE /\ datos_m002' = DatosIniciales
            /\ numero_pagina' = 1
            /\ pc' = "for_pagina"
            /\ UNCHANGED retorno
    /\ UNCHANGED <<vars_orquestador_sin_pc, vars_numeros, vars_construir,
                   vars_paralelo,
                   existe, pdf, numero_linea,
                   rechazados>>

\* lines 149-156: the next page; a page without text is skipped
SiguientePagina ==
    /\ pc = "for_pagina"
    /\ numero_pagina <= Len(pdf)
    /\ IF pdf[numero_pagina] = <<>>
       THEN /\ numero_pagina' = numero_pagina + 1
            /\ UNCHANGED <<pc, numero_linea>>
       ELSE /\ numero_linea' = 1
            /\ pc' = "for_linea"
            /\ UNCHANGED numero_pagina
    /\ UNCHANGED <<vars_orquestador_sin_pc, vars_numeros, vars_construir,
                   vars_paralelo,
                   existe, pdf, datos_m002,
                   retorno, rechazados>>

\* lines 229-231: the pages are exhausted; pdf.close() and return None
PaginasAgotadas ==
    /\ pc = "for_pagina"
    /\ numero_pagina > Len(pdf)
    /\ retorno' = RetNone
    /\ pc' = "return"
    /\ UNCHANGED <<vars_orquestador_sin_pc, vars_numeros, vars_construir,
                   vars_paralelo,
                   existe, pdf, datos_m002,
                   numero_pagina, numero_linea, rechazados>>

\* lines 158-227: the body of `for linea in lineas` on one line
ProcesarLinea ==
    /\ pc = "for_linea"
    /\ numero_linea <= Len(pdf[numero_pagina])
    /\ LET texto == pdf[numero_pagina][numero_linea]
           d1 == buscar_utilidad(datos_m002, texto, numero_pagina)
           d2 == buscar_patrimonio(d1, texto)
           r == validar_y_salir(d2)
       IN  IF r.tipo = "return"
           THEN /\ retorno' = r.retorno
                /\ datos_m002' = d2
                /\ pc' = "return"
                /\ UNCHANGED <<numero_linea, rechazados>>
           ELSE /\ datos_m002' = r.datos
                /\ numero_linea' = numero_linea + 1
                /\ rechazados' =
                       IF r.tipo = "rechazo"
                       THEN rechazados \cup
                                {[pagina |-> numero_pagina, linea |-> numero_linea,
                                  utilidad_neta |-> d2.utilidad_neta_2024,
                                  patrimonio |-> d2.patrimonio_2024]}
                       ELSE rechazados
                /\ UNCHANGED <<pc, retorno>>
    /\ UNCHANGED <<vars_orquestador_sin_pc, vars_numeros, vars_construir,
                   vars_paralelo,
                   existe, pdf, numero_pagina>>

\* The end of `for linea in lineas` leading back to the same page
FinDePagina_repite ==
    /\ pc = "for_linea"
    /\ numero_linea > Len(pdf[numero_pagina])
    /\ pc' = "for_pagina"
    /\ UNCHANGED <<vars_orquestador_sin_pc, vars_numeros, vars_construir,
                   vars_paralelo,
                   existe, pdf, datos_m002,
                   numero_pagina, numero_linea, retorno, rechazados>>

\* line 149: the lines of the page are exhausted; on to the next page
FinDePagina ==
    /\ pc = "for_linea"
    /\ numero_linea > Len(pdf[numero_pagina])
    /\ numero_pagina' = numero_pagina + 1
    /\ pc' = "for_pagina"
    /\ UNCHANGED <<vars_orquestador_sin_pc, vars_numeros, vars_construir,
                   vars_paralelo,
                   existe, pdf, datos_m002,
                   numero_linea, retorno, rechazados>>

NextM002 ==
    \/ AbrirPdf
    \/ SiguientePagina
    \/ PaginasAgotadas
    \/ ProcesarLinea
    \/ FinDePagina

SpecM002 == InitM002 /\ [][NextM002]_vars

-----------------------------------------------------------------------------
(* Properties of a run of extraer_todas_metricas (Spec) *)

EnLista(x, lista) == \E k \in 1..Len(lista) : lista[k] = x

Catalogo == <<"M001", "M003", "M004", "M005">>

\* C1 (orchestrator resilience): whatever subset of the extractors raises or
\* returns None, no exception leaves the run, every extractor of the catalogue
\* is run, and at the return each extractor whose extraction produced a metric
\* has that metric under its id in metricas while each one that raised or
\* returned None is listed in metricas_fallidas and has no entry in metricas.
C1_Resiliencia ==
    /\ pc \in {"for", "return"}
    /\ pc = "return" =>
         /\ invocados = Catalogo
         /\ \A metrica_id \in Ids :
              LET r == Intento(metrica_id, documento)
              IN  IF r.tipo = "metrica"
                  THEN /\ metrica_id \in DOMAIN metricas
                       /\ metricas[metrica_id] = r.m
                       /\ EnLista(metrica_id, metricas_exitosas)
                       /\ ~EnLista(metrica_id, metricas_fallidas)
                  ELSE /\ metrica_id \notin DOMAIN metricas
                       /\ EnLista(metrica_id, metricas_fallidas)
                       /\ ~EnLista(metrica_id, metricas_exitosas)

\* C1 witness: a finished run in which M001 raised, M004 returned None and
\* M005 was still extracted and recorded.
C1_Testigo ==
    /\ pc = "return"
    /\ funcion_extractora("M001", documento).tipo = "raise"
    /\ funcion_extractora("M004", documento).tipo = "none"
    /\ "M005" \in DOMAIN metricas
    /\ metricas_fallidas = <<"M001", "M003", "M004">>

\* The period fields of parser p's dict: every key but the page
CamposDePeriodo(p) == DOMAIN Base(p, VarianteBase) \ {"pagina_encontrada"}

\* Parser p returned a dict in which a period field is None or absent
FaltaCampo(p) ==
    /\ documento[p].st = "dict"
    /\ \E k \in CamposDePeriodo(p) :
          k \notin DOMAIN documento[p].d \/ documento[p].d[k] = NoneVal

\* The parsers each extractor reads
ParsersDe(metrica_id) ==
    CASE metrica_id = "M001" -> {"tabla"}
      [] metrica_id = "M003" -> {"tabla", "cobertura"}
      [] metrica_id = "M004" -> {"cobertura"}
      [] metrica_id = "M005" -> {"calificacion"}

\* C2 (all-or-nothing construction), as claimed: no metric recorded in metricas
\* has a null field in its valores, and a metric one of whose parsers left a
\* period field None or absent is never recorded as succeeded.
C2_TodoONada ==
    \A metrica_id \in DOMAIN metricas :
        /\ \A periodo \in DOMAIN metricas[metrica_id].valores :
             \A campo \in DOMAIN metricas[metrica_id].valores[periodo] :
                 IsNum(metricas[metrica_id].valores[periodo][campo])
        /\ \A p \in ParsersDe(metrica_id) : ~FaltaCampo(p)

C4_FuenteNoDisponibleAborta ==
    ~fuente_disponible =>
        /\ invocados = <<>>
        /\ metricas_exitosas = <<>>
        /\ metricas_fallidas = <<>>
        /\ pc # "return"

-----------------------------------------------------------------------------
(* Properties of validar_coherencia (SpecValidar) *)

\* The 2024 values the rules read
ValorM001(campo) == metricas["M001"].valores["2024"][campo]
ValorM003(campo) == metricas["M003"].valores["2024"][campo]
ValorM004(campo) == metricas["M004"].valores["2024"][campo]
ValorM005(campo) == metricas["M005"].valores["2024"][campo]

Reglas == {"coverage_coherente", "riesgosa_mayor_que_npl", "provision_rango_valido"}

\* The metric ids each rule requires
Requiere(regla) ==
    CASE regla = "coverage_coherente" -> {"M001", "M003", "M004"}
      [] regla = "riesgosa_mayor_que_npl" -> {"M003", "M005"}
      [] regla = "provision_rango_valido" -> {"M001"}

\* C5 (rules fire only when their metrics are present): validar_coherencia
\* raises nothing, writes no key before it runs, and once it has returned each
\* rule's key is in coherencia exactly when all the metrics the rule requires
\* are in metricas; coherencia holds no other key.
C5_ReglasSegunMetricasPresentes ==
    /\ pc # "excepcion"
    /\ pc = "validar" => coherencia = Vacio
    /\ pc = "return" =>
         /\ DOMAIN coherencia \subseteq Reglas
         /\ \A regla \in Reglas :
              regla \in DOMAIN coherencia <=> Requiere(regla) \subseteq DOMAIN metricas

\* C5 witness: validar_coherencia returned with M001, M004 and M005 present
\* and M003 absent, and only the range rule left a key.
C5_Testigo ==
    /\ pc = "return"
    /\ DOMAIN metricas = {"M001", "M004", "M005"}
    /\ DOMAIN coherencia = {"provision_rango_valido"}

\* |provision / cartera_vencida - coverage_ratio| of the metrics in metricas
Discrepancia ==
    RAbs(RSub(RDiv(ValorM001("provision"), ValorM003("cartera_vencida")),
              ValorM004("coverage_ratio")))

\* C6 (coverage consistency rule): when M001, M003 and M004 are present,
\* coverage_coherente is True exactly when |provision / cartera_vencida -
\* coverage_ratio| is strictly below 0.01; provision 1000, overdue 800 and
\* reported coverage 1.25 pass, and a discrepancy of exactly 0.01 fails.
C6_CoberturaCoherente ==
    (pc = "return" /\ Requiere("coverage_coherente") \subseteq DOMAIN metricas) =>
        /\ "coverage_coherente" \in DOMAIN coherencia
        /\ coherencia["coverage_coherente"]
               <=> Discrepancia[1] * 100 < Discrepancia[2]
        /\ ( /\ ValorM001("provision") = Num(1000)
             /\ ValorM003("cartera_vencida") = Num(800)
             /\ ValorM004("coverage_ratio") = Frac(5, 4) )
               => coherencia["coverage_coherente"] = TRUE
        /\ Discrepancia = Frac(1, 100) => coherencia["coverage_coherente"] = FALSE

\* C6 witness: the rule was evaluated on a discrepancy of exactly 0.01
\* (provision 1260 over overdue 1000 against a reported 1.25) and recorded False.
C6_Testigo ==
    /\ pc = "return"
    /\ Requiere("coverage_coherente") \subseteq DOMAIN metricas
    /\ ValorM001("provision") = Num(1260)
    /\ ValorM003("cartera_vencida") = Num(1000)
    /\ ValorM004("coverage_ratio") = Frac(5, 4)
    /\ Discrepancia = Frac(1, 100)
    /\ coherencia["coverage_coherente"] = FALSE

\* C7 (risk-ordering rule): when M003 and M005 are present,
\* riesgosa_mayor_que_npl is True exactly when ratio_riesgosa_cde is strictly
\* greater than npl_ratio: 0.07 against 0.05 passes, 0.04 against 0.05 fails,
\* and equal ratios fail.
C7_RiesgosaMayorQueNpl ==
    (pc = "return" /\ Requiere("riesgosa_mayor_que_npl") \subseteq DOMAIN metricas) =>
        LET riesgosa == ValorM005("ratio_riesgosa_cde")
            npl == ValorM003("npl_ratio")
        IN  /\ "riesgosa_mayor_que_npl" \in DOMAIN coherencia
            /\ coherencia["riesgosa_mayor_que_npl"]
                   <=> riesgosa[1] * npl[2] > npl[1] * riesgosa[2]
            /\ (riesgosa = Frac(7, 100) /\ npl = Frac(5, 100))
                   => coherencia["riesgosa_mayor_que_npl"] = TRUE
            /\ (riesgosa = Frac(4, 100) /\ npl = Frac(5, 100))
                   => coherencia["riesgosa_mayor_que_npl"] = FALSE
            /\ riesgosa = npl => coherencia["riesgosa_mayor_que_npl"] = FALSE

\* C7 witness: the rule was evaluated on equal ratios 0.05 and 0.05 and
\* recorded False.
C7_Testigo ==
    /\ pc = "return"
    /\ Requiere("riesgosa_mayor_que_npl") \subseteq DOMAIN metricas
    /\ ValorM005("ratio_riesgosa_cde") = Frac(5, 100)
    /\ ValorM003("npl_ratio") = Frac(5, 100)
    /\ coherencia["riesgosa_mayor_que_npl"] = FALSE

\* C8 (plausible-range rule): when M001 is present, provision_rango_valido is
\* True exactly when 0.01 <= ratio <= 0.20, both endpoints passing, and False
\* for every ratio outside that interval.
C8_ProvisionRangoValido ==
    (pc = "return" /\ Requiere("provision_rango_valido") \subseteq DOMAIN metricas) =>
        LET ratio == ValorM001("ratio")
        IN  /\ "provision_rango_valido" \in DOMAIN coherencia
            /\ coherencia["provision_rango_valido"]
                   <=> (ratio[2] <= ratio[1] * 100 /\ ratio[1] * 100 <= 20 * ratio[2])
            /\ ratio \in {Frac(1, 100), Frac(20, 100)}
                   => coherencia["provision_rango_valido"] = TRUE

\* C8 witness: the rule was evaluated on a ratio of exactly 0.20 and recorded
\* True.
C8_Testigo ==
    /\ pc = "return"
    /\ "M001" \in DOMAIN metricas
    /\ ValorM001("ratio") = Frac(20, 100)
    /\ coherencia["provision_rango_valido"] = TRUE

\* m restricted to the metrics of ids
Restringir(m, ids) == [metrica_id \in DOMAIN m \cap ids |-> m[metrica_id]]

\* C9 (rule independence and non-fatality): on every set of metrics the
\* extractors can build, validar_coherencia returns without raising, and the
\* outcome recorded for each applicable rule is the outcome the rule gives when
\* it is evaluated on its own required metrics alone, whatever the other rules
\* recorded or skipped.
C9_ReglasIndependientes ==
    /\ pc # "excepcion"
    /\ pc = "return" =>
         \A regla \in Reglas :
            Requiere(regla) \subseteq DOMAIN metricas =>
                LET sola == validar_coherencia(Restringir(metricas, Requiere(regla)),
                                               Vacio)
                IN  /\ ~sola.raised
                    /\ regla \in DOMAIN coherencia
                    /\ coherencia[regla] = sola.coh[regla]

\* C9 witness: the coverage rule and the range rule both recorded False and
\* the risk-ordering rule, evaluated between them, still recorded True.
C9_Testigo ==
    /\ pc = "return"
    /\ DOMAIN coherencia = Reglas
    /\ coherencia["coverage_coherente"] = FALSE
    /\ coherencia["riesgosa_mayor_que_npl"] = TRUE
    /\ coherencia["provision_rango_valido"] = FALSE

-----------------------------------------------------------------------------
(* Properties of the classifiers (SpecClasificar) *)

\* ratio < pct/100
Bajo(ratio, pct) == ratio[1] * 100 < pct * ratio[2]

\* The label of the band of tabla that holds ratio: tabla lists the bands in
\* ascending order as <<upper bound in percent, label>>, a band running from
\* the previous bound (included) to its own (excluded); ultima is the label
\* above the last bound.
RECURSIVE EtiquetaDeBanda(_, _, _)
EtiquetaDeBanda(ratio, tabla, ultima) ==
    IF tabla = <<>> THEN ultima
    ELSE IF Bajo(ratio, Head(tabla)[1]) THEN Head(tabla)[2]
    ELSE EtiquetaDeBanda(ratio, Tail(tabla), ultima)

Tabla(metrica_id) ==
    CASE metrica_id = "M001" -> <<<<4, "BAJO">>, <<7, "MEDIO">>, <<10, "ALTO">>>>
      [] metrica_id = "M002" -> <<<<5, "BAJO">>, <<10, "MEDIO">>, <<15, "ALTO">>>>
      [] metrica_id \in {"M003", "M005"} ->
             <<<<3, "EXCELENTE">>, <<5, "BUENO">>, <<8, "ACEPTABLE">>, <<12, "ALTO">>>>
      [] metrica_id = "M004" ->
             <<<<80, "INSUFICIENTE">>, <<100, "LIMITE">>, <<150, "ADECUADO">>>>

BandaSuperior(metrica_id) ==
    CASE metrica_id \in {"M001", "M003", "M005"} -> "CRITICO"
      [] metrica_id = "M002" -> "EXCELENTE"
      [] metrica_id = "M004" -> "CONSERVADOR"

\* The label of the band above the i-th band of the table
BandaSiguiente(metrica_id, i) ==
    IF i < Len(Tabla(metrica_id)) THEN Tabla(metrica_id)[i + 1][2]
    ELSE BandaSuperior(metrica_id)

\* The classifier gives a ratio equal to the i-th bound the next higher band
CotaEnBandaSiguiente(metrica_id, i) ==
    ratio_entrada = Frac(Tabla(metrica_id)[i][1], 100)
        => etiquetas[metrica_id] = BandaSiguiente(metrica_id, i)

\* C11 as stated (uniform band-boundary convention): in all five classifiers a
\* ratio exactly equal to a band's upper bound is classified into the next
\* higher band, M004 at 0.80, 1.00 and 1.50 included.
C11_ConvencionUniforme ==
    pc = "return" =>
        \A metrica_id \in DOMAIN etiquetas :
            \A i \in 1..Len(Tabla(metrica_id)) : CotaEnBandaSiguiente(metrica_id, i)

\* C11 amended: a ratio equal to a band's upper bound is classified into the
\* next higher band in M001, M002, M003 and M005 and in M004 at 0.80 and 1.00;
\* at 1.50 M004 keeps the ratio in ADECUADO, and only ratios above 1.50 are
\* CONSERVADOR.
C11_ConvencionSalvoM004En150 ==
    pc = "return" =>
        /\ \A metrica_id \in DOMAIN etiquetas :
              \A i \in 1..Len(Tabla(metrica_id)) :
                  <<metrica_id, i>> # <<"M004", 3>> => CotaEnBandaSiguiente(metrica_id, i)
        /\ ratio_entrada = Frac(150, 100) => etiquetas.M004 = "ADECUADO"
        /\ ratio_entrada[1] * 100 > 150 * ratio_entrada[2]
              => etiquetas.M004 = "CONSERVADOR"

\* C11 witness: the classifiers were applied to exactly 1.50 and M004 answered
\* ADECUADO.
C11_Testigo ==
    /\ pc = "return"
    /\ ratio_entrada = Frac(150, 100)
    /\ etiquetas.M004 = "ADECUADO"

-----------------------------------------------------------------------------
(* Properties of the recorded metrics (Spec) *)

\* The label a recorded metric carries in analisis
EtiquetaDe(d) ==
    CASE d.id \in {"M001", "M005"} -> d.analisis.nivel_riesgo
      [] d.id = "M003" -> d.analisis.calidad_cartera
      [] d.id = "M004" -> d.analisis.nivel_cobertura

\* The primary ratio of period p a recorded metric carries in valores
RatioPrimario(d, p) ==
    CASE d.id = "M001" -> d.valores[p].ratio
      [] d.id = "M003" -> d.valores[p].npl_ratio
      [] d.id = "M004" -> d.valores[p].coverage_ratio
      [] d.id = "M005" -> d.valores[p].ratio_riesgosa_cde

\* The classifier of each metric
Clasificador(metrica_id, ratio) ==
    CASE metrica_id = "M001" -> evaluar_nivel_riesgo(ratio)
      [] metrica_id = "M003" -> evaluar_calidad_cartera(ratio)
      [] metrica_id = "M004" -> evaluar_nivel_cobertura(ratio)
      [] metrica_id = "M005" -> evaluar_nivel_riesgo_m005(ratio)

\* C12 (label is a function of the primary ratio): in every metric the
\* orchestrator has recorded, the label in analisis is the metric's classifier
\* applied to the 2024 primary ratio in valores; two recorded metrics of the
\* same kind with equal primary ratio therefore carry the same label.
C12_EtiquetaSegunRatio ==
    \A metrica_id \in DOMAIN metricas :
        LET d == metricas[metrica_id]
        IN  /\ d.id = metrica_id
            /\ IsNum(RatioPrimario(d, "2024"))
            /\ EtiquetaDe(d) = Clasificador(metrica_id, RatioPrimario(d, "2024"))

\* C12 witness: a finished run recorded M001 with a 2024 ratio of 0.30 and a
\* 2023 ratio of 0.05, labelled CRITICO, the label of the 2024 ratio.
C12_Testigo ==
    /\ pc = "return"
    /\ "M001" \in DOMAIN metricas
    /\ RatioPrimario(metricas["M001"], "2024") = Frac(30, 100)
    /\ RatioPrimario(metricas["M001"], "2023") = Frac(5, 100)
    /\ EtiquetaDe(metricas["M001"]) = "CRITICO"

-----------------------------------------------------------------------------
(* Properties of extraer_numeros_de_linea (SpecNumeros) *)

\* The digit/separator tokens of a line: the pairs <<a, b>> such that
\* characters a..b are digits or commas and no neighbour of the run is
Tramos(texto) ==
    {t \in (1..Len(texto)) \X (1..Len(texto)) :
        /\ t[1] <= t[2]
        /\ \A i \in t[1]..t[2] : EnClase(texto[i])
        /\ t[1] = 1 \/ ~EnClase(texto[t[1] - 1])
        /\ t[2] = Len(texto) \/ ~EnClase(texto[t[2] + 1])}

RECURSIVE Pot10(_)
Pot10(n) == IF n = 0 THEN 1 ELSE 10 * Pot10(n - 1)

\* The positions of the digits of a token
DigitosDe(texto, t) == {i \in t[1]..t[2] : EsDigito(texto[i])}

\* The digit at position i weighs 10 to the number of digits to its right
Peso(texto, t, i) ==
    ValorDigito(texto[i]) * Pot10(Cardinality({j \in DigitosDe(texto, t) : j > i}))

RECURSIVE SumaPesos(_, _, _)
SumaPesos(texto, t, S) ==
    IF S = {} THEN 0
    ELSE LET i == CHOOSE j \in S : TRUE
         IN  Peso(texto, t, i) + SumaPesos(texto, t, S \ {i})

\* The magnitude the digits of a token spell
Magnitud(texto, t) == SumaPesos(texto, t, DigitosDe(texto, t))

\* The magnitudes of the tokens in S that parse (hold a digit) and are above
\* piso, or equal to it when incluido, from left to right
RECURSIVE Candidatos(_, _, _, _)
Candidatos(texto, S, piso, incluido) ==
    IF S = {} THEN <<>>
    ELSE LET t == CHOOSE x \in S : \A y \in S : x[1] <= y[1]
             v == Magnitud(texto, t)
             resto == Candidatos(texto, S \ {t}, piso, incluido)
         IN  IF DigitosDe(texto, t) # {} /\ (v > piso \/ (incluido /\ v = piso))
             THEN <<Num(v)>> \o resto
             ELSE resto

\* C17 as stated (noise floor): extraer_numeros_de_linea discards a parsed
\* magnitude exactly when it is below 1000; every magnitude that is not below
\* 1000, exactly 1000 included, is kept.
C17_PisoDeRuido ==
    pc = "return" =>
        numeros = Candidatos(linea, Tramos(linea), 1000, TRUE)

\* C18 (token extraction preserves order and survives bad tokens): the result
\* is the sequence of the magnitudes of the line's tokens that parse and pass
\* the noise floor, in left-to-right order, a token without digits being
\* skipped and the tokens after it still returned; the two example lines give
\* [1234567, 987654] and [].  A magnitude of exactly 1000 is left aside on
\* both sides (C17 is about it).
C18_TokensEnOrden ==
    pc = "return" =>
        /\ SelectSeq(numeros, LAMBDA v : v # Num(1000))
               = Candidatos(linea, Tramos(linea), 1000, FALSE)
        /\ \A k \in 1..Len(numeros) : ~RLt(numeros[k], Num(1000))
        /\ linea = LineaUtilidad => numeros = <<Num(1234567), Num(987654)>>
        /\ linea = LineaPagina => numeros = <<>>

\* C18 witness: on ", 2,000 ,, (3000)" the tokens "," and ",," fail to parse
\* and the call still returned [2000, 3000].
C18_Testigo ==
    /\ pc = "return"
    /\ linea = LineaSeparadores
    /\ numeros = <<Num(2000), Num(3000)>>

-----------------------------------------------------------------------------
(* Properties of extraer_metrica_m002 (SpecM002) *)

\* The places <<page, line>> of the document, in reading order
Lugares == UNION {{<<p, l>> : l \in 1..Len(pdf[p])} : p \in 1..Len(pdf)}

Antes(a, b) == a[1] < b[1] \/ (a[1] = b[1] /\ a[2] < b[2])

\* A line that matches the net-income cue, is not excluded by `total` in its
\* first 20 characters and yields at least two candidates; likewise for equity
SirveUtilidad(texto) ==
    /\ Contiene(utilidad_neta, lower(texto)) \/ Contiene(net_income, lower(texto))
    /\ ~Contiene(total, Prefijo(lower(texto), 20))
    /\ Len(extraer_numeros_de_linea(texto)) >= 2

SirvePatrimonio(texto) ==
    /\ Contiene(total_patrimonio, lower(texto)) \/ Contiene(total_equity, lower(texto))
    /\ Len(extraer_numeros_de_linea(texto)) >= 2

\* The second-to-last and the last candidate of the line at a place
Penultimo(lugar) ==
    LET nums == extraer_numeros_de_linea(pdf[lugar[1]][lugar[2]])
    IN  nums[Len(nums) - 1]

Ultimo(lugar) ==
    LET nums == extraer_numeros_de_linea(pdf[lugar[1]][lugar[2]])
    IN  nums[Len(nums)]

\* The usable lines of each item after place desde and up to place hasta
UtilidadesEntre(desde, hasta) ==
    {g \in Lugares : /\ Antes(desde, g)
                     /\ ~Antes(hasta, g)
                     /\ SirveUtilidad(pdf[g[1]][g[2]])}

PatrimoniosEntre(desde, hasta) ==
    {g \in Lugares : /\ Antes(desde, g)
                     /\ ~Antes(hasta, g)
                     /\ SirvePatrimonio(pdf[g[1]][g[2]])}

Primero(S) == CHOOSE g \in S : \A h \in S : ~Antes(h, g)

FinDelDocumento == <<Len(pdf) + 1, 0>>

\* The places where a pair was rejected, and the last of them before hasta
\* (<<0, 0>> when there is none)
LugaresDeRechazo == {<<r.pagina, r.linea>> : r \in rechazados}

UltimoRechazo(hasta) ==
    LET S == {g \in LugaresDeRechazo : Antes(g, hasta)}
    IN  IF S = {} THEN <<0, 0>> ELSE CHOOSE g \in S : \A h \in S : ~Antes(g, h)

\* The place of the line the scan handled last
LugarActual ==
    IF pc = "return" THEN <<numero_pagina, numero_linea>>
    ELSE <<numero_pagina, numero_linea - 1>>

EnRangoCerrado(roe) == -10 * roe[2] <= 100 * roe[1] /\ 100 * roe[1] <= 30 * roe[2]

\* C14 as stated (plausibility range): a located pair is accepted exactly when
\* utilidad_neta_2024 / patrimonio_2024 lies in [-10%, 30%], endpoints
\* included: no rejected pair has a ratio in the closed range, and a returned
\* metric's pair has one.
C14_RangoCerrado ==
    /\ \A r \in rechazados : ~EnRangoCerrado(RDiv(r.utilidad_neta, r.patrimonio))
    /\ (pc = "return" /\ retorno # RetNone) =>
           EnRangoCerrado(RDiv(retorno.m.utilidad_neta_2024, retorno.m.patrimonio_2024))

\* The steps the scan can still take from page p on: for each page the entry
\* into it, its lines and the exit from it
RECURSIVE Resto(_)
Resto(p) == IF p > Len(pdf) THEN 0 ELSE Len(pdf[p]) + 2 + Resto(p + 1)

\* A bound on the steps left before the call returns
Medida ==
    CASE pc = "m002" -> Resto(1) + 2
      [] pc = "for_pagina" -> Resto(numero_pagina) + 1
      [] pc = "for_linea" ->
             Resto(numero_pagina + 1) + (Len(pdf[numero_pagina]) + 1 - numero_linea) + 2
      [] pc = "return" -> 0

\* Some step of the call can be taken: the loops are at a page or a line of
\* the document, or just past the last one
PuedeSeguir ==
    \/ pc = "m002"
    \/ pc = "for_pagina" /\ numero_pagina \in 1..(Len(pdf) + 1)
    \/ /\ pc = "for_linea"
       /\ numero_pagina \in 1..Len(pdf)
       /\ numero_linea \in 1..(Len(pdf[numero_pagina]) + 1)

\* C15 (the extraction terminates): every step of a call lowers the bound
\* Medida on the steps left, which is never negative, and a call that has not
\* returned can take a step, so every call on a finite document returns; it
\* returns either None or a metric; it returns None when the pages were
\* exhausted, and a returned metric never comes from a pair that failed the
\* plausibility check.
C15_Termina ==
    /\ [][Medida' < Medida]_vars
    /\ [](Medida >= 0)
    /\ [](pc # "return" => PuedeSeguir /\ retorno = <<>>)
    /\ [](pc = "return" =>
            /\ retorno = RetNone \/ retorno.tipo = "metrica"
            /\ (existe /\ numero_pagina > Len(pdf)) => retorno = RetNone
            /\ retorno # RetNone =>
                 /\ roe_razonable(RDiv(retorno.m.utilidad_neta_2024,
                                       retorno.m.patrimonio_2024))
                 /\ \A r \in rechazados :
                       <<r.utilidad_neta, r.patrimonio>>
                           # <<retorno.m.utilidad_neta_2024, retorno.m.patrimonio_2024>>)

\* C15 witness: the pages were exhausted after a pair had been rejected, and
\* the call returned None.
C15_Testigo ==
    /\ pc = "return"
    /\ existe
    /\ rechazados # {}
    /\ numero_pagina > Len(pdf)
    /\ retorno = RetNone

\* C16 (last two numbers, first match in document order): at every point of
\* the scan an item that is located holds the second-to-last candidate (2024)
\* and the last candidate (2023) of the first usable line of its kind after
\* the last rejected pair, later usable lines not overwriting it; an item is
\* unset only if no usable line came since; pagina_encontrada is the page of
\* the net-income line; and a returned metric carries these values.
C16_UltimosDosPrimeraCoincidencia ==
    (pc \in {"for_linea", "return"} /\ (pc = "return" => retorno # RetNone)) =>
        LET desde == UltimoRechazo(<<Len(pdf) + 2, 0>>)
            U == UtilidadesEntre(desde, LugarActual)
            P == PatrimoniosEntre(desde, LugarActual)
            d == datos_m002
        IN  /\ IF U = {} THEN ~Truthy(d.utilidad_neta_2024)
               ELSE /\ d.utilidad_neta_2024 = Penultimo(Primero(U))
                    /\ d.utilidad_neta_2023 = Ultimo(Primero(U))
                    /\ d.pagina_encontrada = Num(Primero(U)[1])
            /\ IF P = {} THEN ~Truthy(d.patrimonio_2024)
               ELSE /\ d.patrimonio_2024 = Penultimo(Primero(P))
                    /\ d.patrimonio_2023 = Ultimo(Primero(P))
            /\ pc = "return" =>
                 /\ U # {} /\ P # {}
                 /\ retorno.m.utilidad_neta_2024 = Penultimo(Primero(U))
                 /\ retorno.m.utilidad_neta_2023 = Ultimo(Primero(U))
                 /\ retorno.m.patrimonio_2024 = Penultimo(Primero(P))
                 /\ retorno.m.patrimonio_2023 = Ultimo(Primero(P))
                 /\ retorno.m.pagina_fuente = Num(Primero(U)[1])

\* C16 witness: the scan has read "Net income (5,000) 3000 2500", a line of
\* three candidates, and after it another usable net-income line; the item
\* still holds 3000 (2024) and 2500 (2023).
C16_Testigo ==
    /\ pc = "for_linea"
    /\ Cardinality(UtilidadesEntre(<<0, 0>>, LugarActual)) >= 2
    /\ pdf[1][1] = LineaUtilidad3000
    /\ datos_m002.utilidad_neta_2024 = Num(3000)
    /\ datos_m002.utilidad_neta_2023 = Num(2500)

-----------------------------------------------------------------------------
(* Direct calls of the five dataclass constructors and of to_dict *)

\* The two period ratios run over -MaxConstruir100/100 .. MaxConstruir100/100
\* in steps of 1/100.
MaxConstruir100 == 3

RatiosConstruir ==
    {Frac(k, 100) : k \in (0 - MaxConstruir100)..MaxConstruir100}

\* The values a caller passes for cambio_yoy
CambiosPasados == {Num(0), Frac(1, 100), Num(5)}

Clases == {"M001", "M002", "M003", "M004", "M005"}

\* The keyword arguments of the fields without a default, with the two primary
\* ratios given; the amounts are fixed.
ArgumentosBase(c, r24, r23) ==
    CASE c = "M001" ->
           [provision_2024 |-> Num(50), provision_2023 |-> Num(40),
            cartera_2024 |-> Num(1000), cartera_2023 |-> Num(900),
            ratio_2024 |-> r24, ratio_2023 |-> r23,
            nivel_riesgo |-> evaluar_nivel_riesgo(r24),
            pagina_fuente |-> Num(94)]
      [] c = "M002" ->
           [utilidad_neta_2024 |-> Num(2000), utilidad_neta_2023 |-> Num(1500),
            patrimonio_2024 |-> Num(10000), patrimonio_2023 |-> Num(9000),
            roe_2024 |-> r24, roe_2023 |-> r23,
            nivel_desempeno |-> evaluar_desempeno(r24),
            pagina_fuente |-> Num(3)]
      [] c = "M003" ->
           [cartera_vencida_2024 |-> Num(30), cartera_vencida_2023 |-> Num(25),
            cartera_total_2024 |-> Num(1000), cartera_total_2023 |-> Num(900),
            npl_ratio_2024 |-> r24, npl_ratio_2023 |-> r23,
            calidad_cartera |-> evaluar_calidad_cartera(r24),
            provision_2024 |-> Num(50), provision_2023 |-> Num(40),
            coverage_2024 |-> Frac(5, 3), coverage_2023 |-> Frac(8, 5),
            pagina_fuente |-> Num(95)]
      [] c = "M004" ->
           [coverage_2024 |-> r24, coverage_2023 |-> r23,
            nivel_cobertura |-> evaluar_nivel_cobertura(r24),
            pagina_fuente |-> Num(95)]
      [] c = "M005" ->
           [cartera_a |-> ("2024" :> Num(800) @@ "2023" :> Num(700)),
            cartera_b |-> ("2024" :> Num(100) @@ "2023" :> Num(100)),
            cartera_c |-> ("2024" :> Num(50) @@ "2023" :> Num(50)),
            cartera_d |-> ("2024" :> Num(30) @@ "2023" :> Num(30)),
            cartera_e |-> ("2024" :> Num(20) @@ "2023" :> Num(20)),
            cartera_total |-> ("2024" :> Num(1000) @@ "2023" :> Num(900)),
            ratio_riesgosa_2024 |-> r24, ratio_riesgosa_2023 |-> r23,
            nivel_riesgo |-> evaluar_nivel_riesgo_m005(r24),
            pagina_fuente |-> Num(96)]

\* The calls: cambio_yoy is left to its default or passed
ArgumentosDe(c) ==
    LET bases == {ArgumentosBase(c, r24, r23) :
                      r24 \in RatiosConstruir, r23 \in RatiosConstruir}
    IN  bases \cup {[cambio_yoy |-> v] @@ b : v \in CambiosPasados, b \in bases}

\* clase(**argumentos): the generated __init__ followed by __post_init__
Constructor(c, kw) ==
    CASE c = "M001" -> MetricaM001(kw)
      [] c = "M002" -> MetricaM002(kw)
      [] c = "M003" -> MetricaM003(kw)
      [] c = "M004" -> MetricaM004(kw)
      [] c = "M005" -> MetricaM005(kw)

InitConstruir ==
    /\ ReposoOrquestador
    /\ ReposoNumeros
    /\ ReposoM002
    /\ ReposoParalelo
    /\ pc = "construir"
    /\ clase \in Clases
    /\ argumentos \in ArgumentosDe(clase)
    /\ construida = <<>>
    /\ reporte = <<>>

\* metrica = MetricaM00x(...)
Construir ==
    /\ pc = "construir"
    /\ construida' = Constructor(clase, argumentos)
    /\ pc' = "to_dict"
    /\ UNCHANGED <<vars_orquestador_sin_pc, vars_numeros, vars_m002, vars_paralelo, clase,
                   argumentos, reporte>>

\* metrica.to_dict()
ConvertirADict ==
    /\ pc = "to_dict"
    /\ reporte' = to_dict(construida)
    /\ pc' = "return"
    /\ UNCHANGED <<vars_orquestador_sin_pc, vars_numeros, vars_m002, vars_paralelo, clase,
                   argumentos, construida>>

NextConstruir == Construir \/ ConvertirADict

SpecConstruir == InitConstruir /\ [][NextConstruir]_vars

-----------------------------------------------------------------------------
(* Year-over-year delta *)

\* The field holding the primary ratio of period p in the arguments of class c
CampoPrimario(c, p) ==
    CASE c = "M001" -> IF p = "2024" THEN "ratio_2024" ELSE "ratio_2023"
      [] c = "M002" -> IF p = "2024" THEN "roe_2024" ELSE "roe_2023"
      [] c = "M003" -> IF p = "2024" THEN "npl_ratio_2024" ELSE "npl_ratio_2023"
      [] c = "M004" -> IF p = "2024" THEN "coverage_2024" ELSE "coverage_2023"
      [] c = "M005" -> IF p = "2024" THEN "ratio_riesgosa_2024"
                                      ELSE "ratio_riesgosa_2023"

\* current-period primary ratio minus prior-period primary ratio
DeltaEsperado ==
    RSub(argumentos[CampoPrimario(clase, "2024")],
         argumentos[CampoPrimario(clase, "2023")])

\* C19: every metric object built has cambio_yoy equal to its current-period
\* primary ratio minus its prior-period primary ratio, whatever was passed
\* for cambio_yoy, every other field is as passed, and to_dict returns a dict
\* whose analisis.cambio_yoy_pp is that difference.
C19_CambioYoY ==
    /\ pc \in {"to_dict", "return"} /\ clase \in Clases =>
          /\ construida.id = clase
          /\ construida.cambio_yoy = DeltaEsperado
          /\ \A k \in DOMAIN argumentos \ {"cambio_yoy"} :
                 construida[k] = argumentos[k]
    /\ pc = "return" /\ clase \in Clases =>
          /\ reporte.tipo = "metrica"
          /\ reporte.m.analisis.cambio_yoy_pp = DeltaEsperado

\* A coverage metric built with cambio_yoy = 5 passed and ratios 0.03 and
\* -0.01 reports 0.04.
C19_Testigo ==
    /\ pc = "return"
    /\ clase = "M004"
    /\ Has(argumentos, "cambio_yoy") /\ argumentos.cambio_yoy = Num(5)
    /\ argumentos.coverage_2024 = Frac(3, 100)
    /\ argumentos.coverage_2023 = Frac(-1, 100)
    /\ reporte.tipo = "metrica"
    /\ reporte.m.analisis.cambio_yoy_pp = Frac(4, 100)

-----------------------------------------------------------------------------
(* Validation happens last and only reads *)

\* Every extractor of the catalogue has completed: each was called once, in
\* order, and stands in exactly one of the two lists.
TodosCompletados ==
    /\ idx = Len(extractores) + 1
    /\ invocados = extractores
    /\ Len(metricas_exitosas) + Len(metricas_fallidas) = Len(extractores)
    /\ \A i \in 1..Len(extractores) :
           (\E j \in 1..Len(metricas_exitosas) :
                metricas_exitosas[j] = extractores[i])
           # (\E j \in 1..Len(metricas_fallidas) :
                metricas_fallidas[j] = extractores[i])

\* The step that calls validar_coherencia: the one that leaves the loop
PasoDeValidacion == pc = "for" /\ pc' # "for"

\* C20: in every run the validator is called exactly once, after every
\* extractor of the catalogue has completed, and it only reads.  A step that
\* writes coherencia or leaves the loop is the validation step; it is taken
\* only when all extractors have completed, calls no extractor, leaves
\* metricas, metricas_exitosas and metricas_fallidas unchanged and computes
\* coherencia from metricas alone.  Nothing runs after it, and while the loop
\* runs each step completes one more extractor, so the validation step is
\* always reached.
C20_ValidacionAlFinal ==
    /\ [][(pc' # pc \/ coherencia' # coherencia) =>
              /\ PasoDeValidacion
              /\ TodosCompletados
              /\ pc' \in {"return", "excepcion"}
              /\ coherencia' = validar_coherencia(metricas, Vacio).coh
              /\ UNCHANGED <<metricas, metricas_exitosas, metricas_fallidas,
                             invocados, idx, documento>>]_vars
    /\ [][pc = "for"]_vars
    /\ [][pc' = pc => idx' = idx + 1 /\ Len(invocados') = Len(invocados) + 1]_vars
    /\ [](pc = "for" => idx \in 1..(Len(extractores) + 1) /\ coherencia = Vacio)
    /\ [](pc # "for" => pc \in {"return", "excepcion"} /\ TodosCompletados)

\* A run that has returned after validating two recorded metrics, with one
\* extractor failed and at least one rule evaluated.
C20_Testigo ==
    /\ pc = "return"
    /\ TodosCompletados
    /\ Len(metricas_exitosas) >= 2
    /\ Len(metricas_fallidas) >= 1
    /\ DOMAIN metricas = {metricas_exitosas[j] : j \in 1..Len(metricas_exitosas)}
    /\ coherencia # Vacio

-----------------------------------------------------------------------------
(* A missing input fails its dependents only *)

\* The run is over: extraer_todas_metricas returned or validar_coherencia
\* raised
FinDeCorrida == pc \in {"return", "excepcion"}

\* What the loop body records for an outcome of the try: the dict of a
\* succeeded metric, or the failure
Registro(r) == IF r.tipo = "metrica" THEN r ELSE [tipo |-> "fallida"]

\* What the run recorded for metrica_id
Registrado(metrica_id) ==
    IF metrica_id \in DOMAIN metricas
    THEN [tipo |-> "metrica", m |-> metricas[metrica_id]]
    ELSE [tipo |-> "fallida"]

\* The parser of page 95 located the coverage: a dict with a truthy
\* cobertura_2024
CoberturaLocalizada(doc) ==
    LET r == extraer_cobertura_vencida(doc)
    IN  /\ r.st = "dict"
        /\ Has(r.d, "cobertura_2024")
        /\ Truthy(r.d["cobertura_2024"])

\* The parser of the risk rating located its table: a dict with a truthy
\* a_2024
CalificacionLocalizada(doc) ==
    LET r == extraer_calificacion_riesgo(doc)
    IN  /\ r.st = "dict"
        /\ Has(r.d, "a_2024")
        /\ Truthy(r.d["a_2024"])

\* The well-formed results of parser p
Localizados(p) ==
    {Resultado(p, [q \in Parsers |-> "dict"], v, Vacio) : v \in Variantes}

\* The documents that differ from doc in the result of parser p only, which
\* is well formed
ConLocalizado(doc, p) ==
    CASE p = "cobertura" ->
           {[doc EXCEPT !.cobertura = c] : c \in Localizados("cobertura")}
      [] p = "calificacion" ->
           {[doc EXCEPT !.calificacion = c] : c \in Localizados("calificacion")}

\* C21: at the end of a run on a document whose coverage was not located,
\* M004 and M003 are failed, and what is recorded for M001 and for M005 is
\* what a run records on the same document with the coverage located; at the
\* end of a run on a document whose risk rating was not located, M005 is
\* failed and what is recorded for M001, M003 and M004 is what a run records
\* on the same document with the rating located.
C21_FalloSoloADependientes ==
    FinDeCorrida =>
      /\ ~CoberturaLocalizada(documento) =>
            /\ EnLista("M004", metricas_fallidas)
            /\ EnLista("M003", metricas_fallidas)
            /\ \A k \in {"M001", "M005"} :
                   \A doc \in ConLocalizado(documento, "cobertura") :
                      Registrado(k) = Registro(Intento(k, doc))
      /\ ~CalificacionLocalizada(documento) =>
            /\ EnLista("M005", metricas_fallidas)
            /\ \A k \in {"M001", "M003", "M004"} :
                   \A doc \in ConLocalizado(documento, "calificacion") :
                      Registrado(k) = Registro(Intento(k, doc))

\* A run that returned on a document without coverage: M004 and M003 failed,
\* M001 and M005 succeeded.
C21_Testigo ==
    /\ pc = "return"
    /\ extraer_cobertura_vencida(documento).st = "none"
    /\ metricas_fallidas = <<"M003", "M004">>
    /\ metricas_exitosas = <<"M001", "M005">>
    /\ DOMAIN metricas = {"M001", "M005"}

-----------------------------------------------------------------------------
(* The extractors of the catalogue run as independent tasks *)

\* The documents of the task runs: every combination of parser outcomes on a
\* well-formed document, and the base document with one anomalous field
DocumentosParalelo ==
    {Documento(st, v, Vacio) :
         st \in [Parsers -> {"dict", "none", "raise"}], v \in Variantes}
    \cup {Documento([q \in Parsers |-> "dict"], VarianteBase, an) :
         an \in UNION {[{c} -> Anomalias] : c \in Campos}}

\* resultados['metricas'] and the two lists of resultados['validacion']
Contenedor(m, exitosas, fallidas) ==
    [metricas |-> m, metricas_exitosas |-> exitosas, metricas_fallidas |-> fallidas]

\* The merge through a shared position counter: the outcome is filed under
\* the catalogue entry at the number of outcomes filed so far
Anotar_por_posicion(res, metrica_id, r) ==
    LET n == Len(res.metricas_exitosas) + Len(res.metricas_fallidas) + 1
        otro == extractores[n]
    IN  IF r.tipo = "metrica"
        THEN Contenedor((otro :> r.m) @@ res.metricas,
                        Append(res.metricas_exitosas, otro),
                        res.metricas_fallidas)
        ELSE Contenedor(res.metricas, res.metricas_exitosas,
                        Append(res.metricas_fallidas, otro))

\* lines 85-94: what the loop body does with the outcome r of the try for
\* metrica_id
Anotar(res, metrica_id, r) ==
    IF r.tipo = "metrica"
    THEN Contenedor((metrica_id :> r.m) @@ res.metricas,
                    Append(res.metricas_exitosas, metrica_id),
                    res.metricas_fallidas)
    ELSE Contenedor(res.metricas, res.metricas_exitosas,
                    Append(res.metricas_fallidas, metrica_id))

\* The loop of lines 77-94 from entry i on, in catalogue order
RECURSIVE BucleSecuencial(_, _, _)
BucleSecuencial(doc, i, res) ==
    IF i > Len(extractores) THEN res
    ELSE BucleSecuencial(doc, i + 1,
                         Anotar(res, extractores[i], Intento(extractores[i], doc)))

\* extraer_todas_metricas(ruta_pdf): the loop, then validar_coherencia
CorridaSecuencial(doc) ==
    LET res == BucleSecuencial(doc, 1, Contenedor(Vacio, <<>>, <<>>))
        s == validar_coherencia(res.metricas, Vacio)
    IN  [metricas |-> res.metricas,
         metricas_exitosas |-> res.metricas_exitosas,
         metricas_fallidas |-> res.metricas_fallidas,
         coherencia |-> s.coh,
         raised |-> s.raised]

InitParalelo ==
    /\ fuente_disponible = TRUE
    /\ documento \in DocumentosParalelo
    /\ pc = "for"
    /\ idx = 1
    /\ metricas = Vacio
    /\ metricas_exitosas = <<>>
    /\ metricas_fallidas = <<>>
    /\ coherencia = Vacio
    /\ invocados = <<>>
    /\ ratio_entrada = NoneVal
    /\ etiquetas = Vacio
    /\ ReposoNumeros
    /\ ReposoM002
    /\ ReposoConstruir
    /\ tareas = [metrica_id \in Ids |-> [estado |-> "pendiente"]]

\* A task runs the body of the try (lines 83-84) for its entry of the
\* catalogue on the document and keeps the outcome
EjecutarTarea(metrica_id) ==
    /\ pc = "for"
    /\ tareas[metrica_id].estado = "pendiente"
    /\ tareas' = [tareas EXCEPT ![metrica_id] =
                     [estado |-> "completa",
                      resultado |-> Intento(metrica_id, documento)]]
    /\ invocados' = Append(invocados, metrica_id)
    /\ UNCHANGED <<fuente_disponible, documento, pc, idx, metricas,
                   metricas_exitosas, metricas_fallidas, coherencia, ratio_entrada,
                   etiquetas, vars_numeros, vars_m002, vars_construir>>

\* The outcome of a completed task is merged into resultados (lines 85-94)
UnirTarea(metrica_id) ==
    /\ pc = "for"
    /\ tareas[metrica_id].estado = "completa"
    /\ LET res == Anotar(Contenedor(metricas, metricas_exitosas, metricas_fallidas),
                         metrica_id, tareas[metrica_id].resultado)
       IN  /\ metricas' = res.metricas
           /\ metricas_exitosas' = res.metricas_exitosas
           /\ metricas_fallidas' = res.metricas_fallidas
    /\ tareas' = [tareas EXCEPT ![metrica_id].estado = "unida"]
    /\ idx' = idx + 1
    /\ UNCHANGED <<fuente_disponible, documento, pc, coherencia, invocados,
                   ratio_entrada, etiquetas, vars_numeros, vars_m002,
                   vars_construir>>

\* line 102 on: all tasks merged, validar_coherencia(resultados) and return
ValidarTrasUnir ==
    /\ \A metrica_id \in Ids : tareas[metrica_id].estado = "unida"
    /\ ValidarYRetornar
    /\ UNCHANGED tareas

NextParalelo ==
    \/ \E metrica_id \in Ids : EjecutarTarea(metrica_id)
    \/ \E metrica_id \in Ids : UnirTarea(metrica_id)
    \/ ValidarTrasUnir

SpecParalelo == InitParalelo /\ [][NextParalelo]_vars

-----------------------------------------------------------------------------
(* Parallel-safety of per-metric extraction *)

\* The ids of a list
Conjunto(lista) == {lista[j] : j \in 1..Len(lista)}

\* C22: with the extractors run as tasks in any order and interleaving and
\* each outcome merged when its task has completed, the run ends with the
\* metricas mapping, the sets of succeeded and failed ids and the coherence
\* report of the sequential run in catalogue order.  The outcome a task holds
\* is what its extractor gives on the document alone, and a step changes
\* neither the outcome held by any task nor any entry of metricas already
\* merged.
C22_ParaleloIgualASecuencial ==
    /\ [](FinDeCorrida =>
            LET sec == CorridaSecuencial(documento)
            IN  /\ metricas = sec.metricas
                /\ Conjunto(metricas_exitosas) = Conjunto(sec.metricas_exitosas)
                /\ Conjunto(metricas_fallidas) = Conjunto(sec.metricas_fallidas)
                /\ Len(metricas_exitosas) + Len(metricas_fallidas) = Len(extractores)
                /\ coherencia = sec.coherencia
                /\ (pc = "excepcion") = sec.raised)
    /\ [](\A k \in DOMAIN tareas :
            tareas[k].estado # "pendiente" =>
                tareas[k].resultado = Intento(k, documento))
    /\ [][\A k \in DOMAIN tareas :
            /\ tareas[k].estado # "pendiente" =>
                   tareas'[k].resultado = tareas[k].resultado
            /\ k \in DOMAIN metricas =>
                   k \in DOMAIN metricas' /\ metricas'[k] = metricas[k]
            /\ EnLista(k, metricas_fallidas) => EnLista(k, metricas_fallidas')
            /\ (k \in DOMAIN metricas' /\ k \notin DOMAIN metricas) =>
                   /\ tareas[k].estado = "completa"
                   /\ metricas'[k] = tareas[k].resultado.m]_vars

\* A run that returned after the tasks ran in the reverse of the catalogue
\* order and were merged in another order again, M005 first and M001 before
\* M003, with metrics both succeeded and failed.
C22_Testigo ==
    /\ pc = "return"
    /\ tareas # Vacio
    /\ invocados = <<"M005", "M004", "M003", "M001">>
    /\ metricas_exitosas = <<"M005", "M001">>
    /\ Conjunto(metricas_fallidas) = {"M003", "M004"}
    /\ coherencia # Vacio

-----------------------------------------------------------------------------
(* Outcome partition *)

\* The position of metrica_id in the catalogue (lines 69-74)
PosicionEnCatalogo(metrica_id) ==
    CHOOSE i \in 1..Len(extractores) : extractores[i] = metrica_id

\* The list holds catalogue ids only, in catalogue order, none twice
EnOrdenDeCatalogo(lista) ==
    /\ \A j \in 1..Len(lista) : lista[j] \in Ids
    /\ \A i, j \in 1..Len(lista) :
           i < j => PosicionEnCatalogo(lista[i]) < PosicionEnCatalogo(lista[j])

\* lista is an initial part of otra
EsPrefijo(lista, otra) ==
    /\ Len(lista) <= Len(otra)
    /\ \A j \in 1..Len(lista) : otra[j] = lista[j]

\* C23: at the end of every run each id of the catalogue stands exactly once
\* in exactly one of metricas_exitosas and metricas_fallidas and no other id
\* does; all along the run the keys of metricas are the ids of
\* metricas_exitosas, both lists follow catalogue order and share no id; and
\* a step only appends to a list, so an id once placed is never moved or
\* removed.
C23_ParticionDeResultados ==
    /\ [](FinDeCorrida =>
            /\ Conjunto(metricas_exitosas) \cup Conjunto(metricas_fallidas) = Ids
            /\ Len(metricas_exitosas) + Len(metricas_fallidas) = Len(extractores))
    /\ [](/\ DOMAIN metricas = Conjunto(metricas_exitosas)
          /\ EnOrdenDeCatalogo(metricas_exitosas)
          /\ EnOrdenDeCatalogo(metricas_fallidas)
          /\ Conjunto(metricas_exitosas) \cap Conjunto(metricas_fallidas) = {})
    /\ [][/\ EsPrefijo(metricas_exitosas, metricas_exitosas')
          /\ EsPrefijo(metricas_fallidas, metricas_fallidas')]_vars

\* A run that returned with the first two entries failed and the last two
\* succeeded.
C23_Testigo ==
    /\ pc = "return"
    /\ metricas_exitosas = <<"M004", "M005">>
    /\ metricas_fallidas = <<"M001", "M003">>
    /\ DOMAIN metricas = {"M004", "M005"}

-----------------------------------------------------------------------------
(* The coverage rule against the chained metric *)

\* C24: at the end of every run, if rule 1 was evaluated it recorded True,
\* and if M003 succeeded then M001 and M004 succeeded too, with the provision
\* and the coverage M003 was computed from.
C24_Regla1SeConfirma ==
    FinDeCorrida =>
      /\ "coverage_coherente" \in DOMAIN coherencia =>
            coherencia["coverage_coherente"]
      /\ "M003" \in DOMAIN metricas =>
            /\ "M001" \in DOMAIN metricas
            /\ "M004" \in DOMAIN metricas
            /\ ValorM001("provision") = metricas["M003"].calculo.provision_2024
            /\ ValorM004("coverage_ratio") = metricas["M003"].calculo.coverage_2024
            /\ ValorM003("cartera_vencida") =
                   RDiv(ValorM001("provision"), ValorM004("coverage_ratio"))

-----------------------------------------------------------------------------
(* Calls of extraer_metrica_m002 on documents whose equity fell or rose *)
(* between the two periods (SpecM002Promedio)                            *)

\* "Total equity 10,000 2,000"
LineaPatrimonioMenor ==
    <<"T", "o", "t", "a", "l", " ", "e", "q", "u", "i", "t", "y", " ", "1",
      "0", ",", "0", "0", "0", " ", "2", ",", "0", "0", "0">>

\* The lines a page of these documents can hold
LineasPromedio ==
    {LineaUtilidad2000, LineaUtilidad5000, LineaPatrimonio, LineaPatrimonioMenor}

CorridosPromedio ==
    UNION {[1..n -> LineasPromedio \cup {Salto}] : n \in 0..MaxDoc}

InitM002Promedio ==
    /\ ReposoOrquestador
    /\ ReposoNumeros
    /\ ReposoConstruir
    /\ ReposoParalelo
    /\ pc = "m002"
    /\ existe \in BOOLEAN
    /\ pdf \in IF existe THEN {Paginas(c, <<>>) : c \in CorridosPromedio}
                         ELSE {<<>>}
    /\ datos_m002 = <<>>
    /\ numero_pagina = 0
    /\ numero_linea = 0
    /\ retorno = <<>>
    /\ rechazados = {}

SpecM002Promedio == InitM002Promedio /\ [][NextM002]_vars

\* C25: every metric extraer_metrica_m002 returns reports a roe_2024 strictly
\* between -10% and 30%, the range the preliminary ratio was held to.
C25_RoeReportadoEnRango ==
    (pc = "return" /\ retorno # <<>> /\ retorno.tipo = "metrica") =>
        roe_razonable(retorno.m.roe_2024)

-----------------------------------------------------------------------------
(* Provenance *)

\* The value is a page number counted from 1
EsPaginaValida(v) == IsNum(v) /\ v[2] = 1 /\ v[1] >= 1

\* C26: at the end of every run each metric recorded as succeeded reports a
\* pagina_fuente that is a page number counted from 1: none reports page 0
\* or no page.
C26_PaginaFuenteValida ==
    FinDeCorrida =>
        \A metrica_id \in DOMAIN metricas :
            EsPaginaValida(metricas[metrica_id].metadata.pagina_fuente)

====
